---- MODULE Spec2Model ----
(***************************************************************************)
(* Idea-uniqueness pipeline of the research-paper API:                     *)
(*   src/app/utils/uniquenessChecker.js   (hashing, cosine similarity,     *)
(*                                         checkIdeaUniqueness)            *)
(*   src/app/controllers/ideaController.js (submitIdea)                    *)
(*   src/app/models/Idea.js                (the Idea schema)               *)
(*                                                                         *)
(* Numbers.  JavaScript numbers are modelled as exact rationals <<n, d>>   *)
(* in lowest terms with d > 0; <<0, 0>> stands for NaN.  Embedding vectors *)
(* are drawn from vectors whose squared norms are perfect squares, so that *)
(* Math.sqrt and the division of cosineSimilarity are exact.  IEEE-754     *)
(* rounding error is not modelled.                                         *)
(*                                                                         *)
(* Texts are sequences of character codes; code 0 is a blank.              *)
(***************************************************************************)
EXTENDS Integers, Sequences, FiniteSets, TLC

VARIABLES
    rooms,        \* Room collection: room id -> "none" | "active" | "inactive" | "expired"
    ideas,        \* Idea collection, in insertion order (a sequence of documents)
    providerUp,   \* whether the embedding service answers
    req,          \* the submitIdea requests in flight, one per slot
    received,     \* number of submitIdea requests received so far
    cNew,         \* pure check: the new idea handed to checkIdeaUniqueness
    cEmb,         \* pure check: what getEmbeddings yields for it
    cCorpus,      \* pure check: the existingIdeas list
    cResult       \* pure check: the outcome of checkIdeaUniqueness

vars == <<rooms, ideas, providerUp, req, received, cNew, cEmb, cCorpus, cResult>>

-----------------------------------------------------------------------------
(* JavaScript numbers as exact rationals                                   *)

Abs(x) == IF x < 0 THEN -x ELSE x

RECURSIVE Gcd(_, _)
Gcd(a, b) == IF b = 0 THEN a ELSE Gcd(b, a % b)

NaN == <<0, 0>>

IsNaN(x) == x[2] = 0

\* the rational n/d in lowest terms (d # 0)
Rat(n, d) ==
    LET s == IF d < 0 THEN -1 ELSE 1
        g == Gcd(Abs(n), Abs(d))
    IN  <<(s * n) \div g, (s * d) \div g>>

Num(k) == <<k, 1>>

Add(x, y) == IF IsNaN(x) \/ IsNaN(y) THEN NaN
             ELSE Rat(x[1] * y[2] + y[1] * x[2], x[2] * y[2])

Sub(x, y) == IF IsNaN(x) \/ IsNaN(y) THEN NaN
             ELSE Rat(x[1] * y[2] - y[1] * x[2], x[2] * y[2])

Mul(x, y) == IF IsNaN(x) \/ IsNaN(y) THEN NaN
             ELSE Rat(x[1] * y[1], x[2] * y[2])

\* x / y; 0/0 is NaN as in JavaScript (x/0 with x # 0 does not occur here)
Div(x, y) == IF IsNaN(x) \/ IsNaN(y) \/ y[1] = 0 THEN NaN
             ELSE Rat(x[1] * y[2], x[2] * y[1])

\* x < y and x > y; every comparison with NaN is false
Lt(x, y) == ~IsNaN(x) /\ ~IsNaN(y) /\ x[1] * y[2] < y[1] * x[2]

Gt(x, y) == Lt(y, x)

\* Math.round: nearest integer, halves towards +Infinity; NaN stays NaN
MathRound(x) == IF IsNaN(x) THEN NaN
                ELSE Num((2 * x[1] + x[2]) \div (2 * x[2]))

\* Math.sqrt on perfect squares
MathSqrt(n) == CHOOSE k \in 0..n : k * k = n

IsInteger(x) == x[2] = 1

-----------------------------------------------------------------------------
(* Texts, hashing, vectors                                                 *)

Blank == 0

\* number of hash values of the stand-in for the 32-bit murmurhash
HashRange == 65536

RECURSIVE TrimLeft(_)
TrimLeft(t) == IF t # <<>> /\ Head(t) = Blank THEN TrimLeft(Tail(t)) ELSE t

RECURSIVE TrimRight(_)
TrimRight(t) == IF t # <<>> /\ t[Len(t)] = Blank
                THEN TrimRight(SubSeq(t, 1, Len(t) - 1)) ELSE t

\* the `trim: true` setter of the schema's String paths
Trim(t) == TrimRight(TrimLeft(t))

RECURSIVE HashFold(_, _)
HashFold(t, h) == IF t = <<>> THEN h
                  ELSE HashFold(Tail(t), (h * 31 + Head(t) + 1) % HashRange)

\* murmurhash.v3(text).toString(): a deterministic function of the characters
\* of the text, untrimmed, into a finite range (a polynomial hash stands in
\* for murmur3)
generateHash(text) == HashFold(text, 7)

\* the hash of a document that stores none (undefined)
NoHash == -1

Fields == <<"problemStatement", "proposedSolution", "description", "domain">>

FieldSet == {Fields[i] : i \in 1..Len(Fields)}

\* an object with one property per tracked field
ByField(value(_)) ==
    [problemStatement |-> value("problemStatement"),
     proposedSolution |-> value("proposedSolution"),
     description |-> value("description"),
     domain |-> value("domain")]

\* a vector-valued property: def = FALSE is undefined
Vec(v) == [def |-> TRUE, v |-> v]

Undefined == [def |-> FALSE, v |-> <<>>]

\* an embeddings object: def = FALSE is an undefined object
Emb(ps, sol, desc, dom) ==
    [def |-> TRUE,
     vec |-> [problemStatement |-> ps, proposedSolution |-> sol,
              description |-> desc, domain |-> dom]]

NoEmb == [def |-> FALSE, vec |-> ByField(LAMBDA f : Undefined)]

Hashes(ps, sol) == [def |-> TRUE, problemStatement |-> ps, proposedSolution |-> sol]

NoHashes == [def |-> FALSE, problemStatement |-> NoHash, proposedSolution |-> NoHash]

-----------------------------------------------------------------------------
(* uniquenessChecker.js                                                    *)

checkExactMatch_FirstOnly(newIdea, existingIdeas) ==
    LET problemStatementHash == generateHash(newIdea.problemStatement)
        proposedSolutionHash == generateHash(newIdea.proposedSolution)
        hit(idea) == /\ idea.hashes.def
                     /\ \/ idea.hashes.problemStatement = problemStatementHash
                        \/ idea.hashes.proposedSolution = proposedSolutionHash
    IN  IF Len(existingIdeas) = 0 \/ ~hit(existingIdeas[1])
        THEN [matched |-> FALSE, ideaId |-> 0, field |-> ""]
        ELSE [matched |-> TRUE,
              ideaId |-> existingIdeas[1]._id,
              field |-> IF existingIdeas[1].hashes.problemStatement = problemStatementHash
                        THEN "problemStatement" ELSE "proposedSolution"]

\* the first existing idea, in list order, that has hashes and shares the
\* hash of the problem statement or of the proposed solution
checkExactMatch(newIdea, existingIdeas) ==
    LET problemStatementHash == generateHash(newIdea.problemStatement)
        proposedSolutionHash == generateHash(newIdea.proposedSolution)
        hit(idea) == /\ idea.hashes.def
                     /\ \/ idea.hashes.problemStatement = problemStatementHash
                        \/ idea.hashes.proposedSolution = proposedSolutionHash
        idx == {i \in 1..Len(existingIdeas) : hit(existingIdeas[i])}
    IN  IF idx = {} THEN [matched |-> FALSE, ideaId |-> 0, field |-> ""]
        ELSE LET idea == existingIdeas[CHOOSE i \in idx : \A j \in idx : i <= j]
             IN  [matched |-> TRUE,
                  ideaId |-> idea._id,
                  field |-> IF idea.hashes.problemStatement = problemStatementHash
                            THEN "problemStatement" ELSE "proposedSolution"]

RECURSIVE SumTo(_, _, _)
\* sum over i = 1..n of term[i], from the left, in JavaScript numbers
SumTo(term, n, acc) == IF n = 0 THEN acc
                       ELSE Add(SumTo(term, n - 1, acc), term[n])

\* vecB[i] past the end of vecB is undefined, and arithmetic on it is NaN
At(vec, i) == IF i <= Len(vec) THEN Num(vec[i]) ELSE NaN

cosineSimilarity(vecA, vecB) ==
    IF ~vecA.def \/ ~vecB.def \/ Len(vecA.v) = 0 \/ Len(vecB.v) = 0 THEN Num(0)
    ELSE
    LET n == Len(vecA.v)
        dotProduct == SumTo([i \in 1..n |-> Mul(At(vecA.v, i), At(vecB.v, i))], n, Num(0))
        normA == SumTo([i \in 1..n |-> Mul(At(vecA.v, i), At(vecA.v, i))], n, Num(0))
        normB == SumTo([i \in 1..n |-> Mul(At(vecB.v, i), At(vecB.v, i))], n, Num(0))
        root(x) == IF IsNaN(x) THEN NaN ELSE Num(MathSqrt(x[1]))
    IN  IF normA = Num(0) \/ normB = Num(0) THEN Num(0)
        ELSE Div(dotProduct, Mul(root(normA), root(normB)))

calculateFieldSimilarity_MeanOfPresent(newIdeaEmbeddings, existingIdea) ==
    LET present == {f \in FieldSet : /\ newIdeaEmbeddings.vec[f].def
                                     /\ existingIdea.embeddings.def
                                     /\ existingIdea.embeddings.vec[f].def}
        similarity ==
            ByField(LAMBDA f :
                IF f \in present
                THEN cosineSimilarity(newIdeaEmbeddings.vec[f],
                                      existingIdea.embeddings.vec[f])
                ELSE Num(0))
        total == SumTo([i \in 1..Len(Fields) |-> similarity[Fields[i]]],
                       Len(Fields), Num(0))
    IN  [fieldSimilarity |-> similarity,
         overallSimilarity |-> IF present = {} THEN Num(0)
                               ELSE Div(total, Num(Cardinality(present)))]

\* newIdeaEmbeddings is a defined object here (the caller raises otherwise)
calculateFieldSimilarity(newIdeaEmbeddings, existingIdea) ==
    LET similarity ==
            ByField(LAMBDA f :
                IF /\ newIdeaEmbeddings.vec[f].def
                   /\ existingIdea.embeddings.def
                   /\ existingIdea.embeddings.vec[f].def
                THEN cosineSimilarity(newIdeaEmbeddings.vec[f],
                                      existingIdea.embeddings.vec[f])
                ELSE Num(0))
        total == SumTo([i \in 1..Len(Fields) |-> similarity[Fields[i]]],
                       Len(Fields), Num(0))
    IN  [fieldSimilarity |-> similarity,
         overallSimilarity |-> Div(total, Num(Len(Fields)))]

similarityToUniqueness_Floor(similarityScore) ==
    LET x == Mul(Sub(Num(1), similarityScore), Num(100))
    IN  IF IsNaN(x) THEN NaN ELSE Num(x[1] \div x[2])

similarityToUniqueness_NoComplement(similarityScore) ==
    MathRound(Mul(similarityScore, Num(100)))

similarityToUniqueness(similarityScore) ==
    MathRound(Mul(Sub(Num(1), similarityScore), Num(100)))

\* an explanation string, by its template and the values filled in
Expl(template, field, parts, title) ==
    [template |-> template, field |-> field, parts |-> parts, title |-> title]

\* Array.prototype.sort((a, b) => keys[b] - keys[a]) on a list whose i-th
\* element has the key keys[i]: descending, and stable (elements the
\* comparator does not separate keep their order)
StableSortDesc_TiesReversed(list, keys) ==
    LET n == Len(list)
        rank == [i \in 1..n |->
                    Cardinality({j \in 1..n : Gt(keys[j], keys[i])})
                    + Cardinality({j \in i..n : ~Gt(keys[j], keys[i]) /\ ~Gt(keys[i], keys[j])})]
    IN  [p \in 1..n |-> list[CHOOSE i \in 1..n : rank[i] = p]]

StableSortDesc(list, keys) ==
    LET n == Len(list)
        rank == [i \in 1..n |->
                    Cardinality({j \in 1..n : Gt(keys[j], keys[i])})
                    + Cardinality({j \in 1..i : ~Gt(keys[j], keys[i]) /\ ~Gt(keys[i], keys[j])})]
    IN  [p \in 1..n |-> list[CHOOSE i \in 1..n : rank[i] = p]]

\* Array.prototype.slice(0, n)
Slice(list, n) == SubSeq(list, 1, IF Len(list) < n THEN Len(list) ELSE n)

RECURSIVE Filter(_, _)
\* Array.prototype.filter, the predicate given as the set of elements it keeps
Filter(list, keep) ==
    IF list = <<>> THEN <<>>
    ELSE (IF Head(list) \in keep THEN <<Head(list)>> ELSE <<>>)
         \o Filter(Tail(list), keep)

generateSimilarityExplanation_Unsorted(fieldSimilarity, ideaTitle) ==
    LET topSimilarFields ==
            Slice(Filter(Fields, {f \in FieldSet : Gt(fieldSimilarity[f], Rat(1, 2))}), 2)
    IN  IF Len(topSimilarFields) = 0
        THEN Expl("Some general similarity", "", <<>>, ideaTitle)
        ELSE Expl("Similar", "",
                  [i \in 1..Len(topSimilarFields) |->
                      <<topSimilarFields[i],
                        MathRound(Mul(fieldSimilarity[topSimilarFields[i]], Num(100)))>>],
                  ideaTitle)

generateSimilarityExplanation(fieldSimilarity, ideaTitle) ==
    LET fields == StableSortDesc(Fields, [i \in 1..Len(Fields) |-> fieldSimilarity[Fields[i]]])
        topSimilarFields ==
            Slice(Filter(fields, {f \in FieldSet : Gt(fieldSimilarity[f], Rat(1, 2))}), 2)
    IN  IF Len(topSimilarFields) = 0
        THEN Expl("Some general similarity", "", <<>>, ideaTitle)
        ELSE Expl("Similar", "",
                  [i \in 1..Len(topSimilarFields) |->
                      <<topSimilarFields[i],
                        MathRound(Mul(fieldSimilarity[topSimilarFields[i]], Num(100)))>>],
                  ideaTitle)

RECURSIVE LeastUnique_LastTie(_, _, _)
LeastUnique_LastTie(fieldUniqueness, i, best) ==
    IF i > Len(Fields) THEN best
    ELSE LeastUnique_LastTie(fieldUniqueness, i + 1,
            IF ~Gt(fieldUniqueness[Fields[i]], fieldUniqueness[best])
            THEN Fields[i] ELSE best)

RECURSIVE LeastUnique(_, _, _)
\* the forEach of generateUniquenessExplanation: the first field with the
\* strictly lowest score
LeastUnique(fieldUniqueness, i, best) ==
    IF i > Len(Fields) THEN best
    ELSE LeastUnique(fieldUniqueness, i + 1,
            IF Lt(fieldUniqueness[Fields[i]], fieldUniqueness[best])
            THEN Fields[i] ELSE best)

generateUniquenessExplanation(overallUniqueness, fieldUniqueness) ==
    LET leastUniqueField == LeastUnique(fieldUniqueness, 1, Fields[1])
        atLeast(k) == ~IsNaN(overallUniqueness) /\ ~Lt(overallUniqueness, Num(k))
    IN  IF atLeast(90) THEN Expl("highly unique", "", <<>>, <<>>)
        ELSE IF atLeast(70) THEN Expl("mostly unique", "", <<>>, <<>>)
        ELSE IF atLeast(50) THEN Expl("moderate uniqueness", leastUniqueField, <<>>, <<>>)
        ELSE IF atLeast(30) THEN Expl("significant similarities", leastUniqueField, <<>>, <<>>)
        ELSE Expl("low uniqueness", leastUniqueField, <<>>, <<>>)

\* similarIdeas is capped at this many entries (slice(0, 5))
TopK == 5

\* an existing idea joins the candidates when its overall similarity is above
\* Threshold / 10 (0.3)
Threshold == 3

getEmbeddings_Swallow(idea, service) ==
    [threw |-> FALSE, embeddings |-> service.embeddings]

\* axios.post to the embedding service: it raises when the service fails,
\* else it yields response.data.embeddings
getEmbeddings(idea, service) ==
    [threw |-> ~service.up, embeddings |-> service.embeddings]

NoFieldNumbers == [def |-> FALSE, val |-> ByField(LAMBDA f : NaN)]

FieldNumbers(val) == [def |-> TRUE, val |-> val]

AllUnique == ByField(LAMBDA f : Num(100))

\* what checkIdeaUniqueness ends with: kind is "scored" or "rejected" for a
\* returned object and "throw" for the Error it raises; calls counts the
\* requests made to the embedding service
Outcome(kind, score, fieldUniqueness, similarIdeas, explanation, embeddings, hashes, calls) ==
    [kind |-> kind,
     isRejected |-> (kind = "rejected"),
     uniquenessScore |-> score,
     fieldUniqueness |-> fieldUniqueness,
     similarIdeas |-> similarIdeas,
     explanation |-> explanation,
     embeddings |-> embeddings,
     hashes |-> hashes,
     calls |-> calls]

Thrown(calls) ==
    Outcome("throw", NaN, NoFieldNumbers, <<>>,
            Expl("Failed to analyze idea uniqueness", "", <<>>, <<>>),
            NoEmb, NoHashes, calls)

includes_AtThreshold(overallSimilarity) ==
    ~IsNaN(overallSimilarity) /\ ~Lt(overallSimilarity, Rat(Threshold, 10))

\* similarity.overallSimilarity > 0.3
includes(overallSimilarity) == Gt(overallSimilarity, Rat(Threshold, 10))

RECURSIVE CompareLoop_CountMissing(_, _, _, _, _)
CompareLoop_CountMissing(newIdeaEmbeddings, existingIdeas, i, lowestUniqueness, similarities) ==
    IF i > Len(existingIdeas)
    THEN [lowestUniqueness |-> lowestUniqueness, similarities |-> similarities]
    ELSE
    LET idea == existingIdeas[i]
    IN  IF ~idea.embeddings.def
        THEN CompareLoop_CountMissing(newIdeaEmbeddings, existingIdeas, i + 1,
                                      ByField(LAMBDA f : Num(0)), similarities)
        ELSE
        LET similarity == calculateFieldSimilarity(newIdeaEmbeddings, idea)
            lowest == ByField(LAMBDA f :
                         LET fieldUniqueness ==
                                 similarityToUniqueness(similarity.fieldSimilarity[f])
                         IN  IF Lt(fieldUniqueness, lowestUniqueness[f])
                             THEN fieldUniqueness ELSE lowestUniqueness[f])
            entry == [ideaId |-> idea._id,
                      similarityScore |->
                          MathRound(Mul(similarity.overallSimilarity, Num(100))),
                      fieldSimilarity |->
                          FieldNumbers(ByField(LAMBDA f :
                              MathRound(Mul(similarity.fieldSimilarity[f], Num(100))))),
                      explanation |->
                          generateSimilarityExplanation(similarity.fieldSimilarity,
                                                        idea.title)]
        IN  CompareLoop_CountMissing(newIdeaEmbeddings, existingIdeas, i + 1, lowest,
                        IF includes(similarity.overallSimilarity)
                        THEN Append(similarities, entry) ELSE similarities)

RECURSIVE CompareLoop_LastWins(_, _, _, _, _)
CompareLoop_LastWins(newIdeaEmbeddings, existingIdeas, i, lowestUniqueness, similarities) ==
    IF i > Len(existingIdeas)
    THEN [lowestUniqueness |-> lowestUniqueness, similarities |-> similarities]
    ELSE
    LET idea == existingIdeas[i]
    IN  IF ~idea.embeddings.def
        THEN CompareLoop_LastWins(newIdeaEmbeddings, existingIdeas, i + 1,
                                  lowestUniqueness, similarities)
        ELSE
        LET similarity == calculateFieldSimilarity(newIdeaEmbeddings, idea)
            lowest == ByField(LAMBDA f :
                         LET fieldUniqueness ==
                                 similarityToUniqueness(similarity.fieldSimilarity[f])
                         IN  IF Lt(fieldUniqueness, Num(100))
                             THEN fieldUniqueness ELSE lowestUniqueness[f])
            entry == [ideaId |-> idea._id,
                      similarityScore |->
                          MathRound(Mul(similarity.overallSimilarity, Num(100))),
                      fieldSimilarity |->
                          FieldNumbers(ByField(LAMBDA f :
                              MathRound(Mul(similarity.fieldSimilarity[f], Num(100))))),
                      explanation |->
                          generateSimilarityExplanation(similarity.fieldSimilarity,
                                                        idea.title)]
        IN  CompareLoop_LastWins(newIdeaEmbeddings, existingIdeas, i + 1, lowest,
                        IF includes(similarity.overallSimilarity)
                        THEN Append(similarities, entry) ELSE similarities)

RECURSIVE CompareLoop(_, _, _, _, _)
\* the for loop over existingIdeas: the per-field lowest uniqueness and the
\* candidate list, after the ideas from position i on
CompareLoop(newIdeaEmbeddings, existingIdeas, i, lowestUniqueness, similarities) ==
    IF i > Len(existingIdeas)
    THEN [lowestUniqueness |-> lowestUniqueness, similarities |-> similarities]
    ELSE
    LET idea == existingIdeas[i]
    IN  IF ~idea.embeddings.def
        THEN CompareLoop(newIdeaEmbeddings, existingIdeas, i + 1,
                         lowestUniqueness, similarities)
        ELSE
        LET similarity == calculateFieldSimilarity(newIdeaEmbeddings, idea)
            lowest == ByField(LAMBDA f :
                         LET fieldUniqueness ==
                                 similarityToUniqueness(similarity.fieldSimilarity[f])
                         IN  IF Lt(fieldUniqueness, lowestUniqueness[f])
                             THEN fieldUniqueness ELSE lowestUniqueness[f])
            entry == [ideaId |-> idea._id,
                      similarityScore |->
                          MathRound(Mul(similarity.overallSimilarity, Num(100))),
                      fieldSimilarity |->
                          FieldNumbers(ByField(LAMBDA f :
                              MathRound(Mul(similarity.fieldSimilarity[f], Num(100))))),
                      explanation |->
                          generateSimilarityExplanation(similarity.fieldSimilarity,
                                                        idea.title)]
        IN  CompareLoop(newIdeaEmbeddings, existingIdeas, i + 1, lowest,
                        IF includes(similarity.overallSimilarity)
                        THEN Append(similarities, entry) ELSE similarities)

topSimilar_NoLimit(similarities) ==
    StableSortDesc(similarities,
                   [i \in 1..Len(similarities) |-> similarities[i].similarityScore])

\* similarities.sort(by similarityScore, descending), then slice(0, 5)
topSimilar(similarities) ==
    Slice(StableSortDesc(similarities,
                         [i \in 1..Len(similarities) |-> similarities[i].similarityScore]),
          TopK)

overallOf_Lowest(lowestUniqueness) ==
    CHOOSE x \in {lowestUniqueness[f] : f \in FieldSet} :
        \A f \in FieldSet : ~Lt(lowestUniqueness[f], x)

\* Math.round(sum of the four lowest uniqueness values / 4)
overallOf(lowestUniqueness) ==
    MathRound(Div(SumTo([i \in 1..Len(Fields) |-> lowestUniqueness[Fields[i]]],
                        Len(Fields), Num(0)),
                  Num(Len(Fields))))

firstIdeaResult_Refetch(embeddings, hashes) ==
    Outcome("scored", Num(100), FieldNumbers(AllUnique), <<>>,
            Expl("first idea in this room", "", <<>>, <<>>),
            embeddings, hashes, 2)

firstIdeaResult_Unscored(embeddings, hashes) ==
    Outcome("scored", Num(0), FieldNumbers(AllUnique), <<>>,
            Expl("first idea in this room", "", <<>>, <<>>),
            embeddings, hashes, 1)

\* lines 171-184: what the first idea of a room gets
firstIdeaResult(embeddings, hashes) ==
    Outcome("scored", Num(100), FieldNumbers(AllUnique), <<>>,
            Expl("first idea in this room", "", <<>>, <<>>),
            embeddings, hashes, 1)

\* lines 190-201: the result for an exact match
rejection(exactMatch) ==
    Outcome("rejected", Num(0), NoFieldNumbers,
            <<[ideaId |-> exactMatch.ideaId,
               similarityScore |-> Num(100),
               fieldSimilarity |-> NoFieldNumbers,
               explanation |-> Expl("identical to an existing idea",
                                    exactMatch.field, <<>>, <<>>)]>>,
            Expl("rejected because identical", exactMatch.field, <<>>, <<>>),
            NoEmb, NoHashes, 0)

\* lines 273-283: the object returned after the comparison
analysis(overallUniqueness, lowestUniqueness, similarities, embeddings, hashes) ==
    Outcome("scored", overallUniqueness, FieldNumbers(lowestUniqueness),
            topSimilar(similarities),
            generateUniquenessExplanation(overallUniqueness, lowestUniqueness),
            embeddings, hashes, 1)

\* lines 264-283: the overall uniqueness of what the loop left, and the result
summary(loop, embeddings, hashes) ==
    analysis(overallOf(loop.lowestUniqueness), loop.lowestUniqueness,
             loop.similarities, embeddings, hashes)

\* lines 204-283: the comparison with the existing ideas
comparison(newIdea, existingIdeas, newIdeaEmbeddings) ==
    \* newIdeaEmbeddings[field] on an undefined object raises a TypeError
    IF /\ ~newIdeaEmbeddings.def
       /\ \E i \in 1..Len(existingIdeas) : existingIdeas[i].embeddings.def
    THEN Thrown(1)
    ELSE summary(CompareLoop(newIdeaEmbeddings, existingIdeas, 1, AllUnique, <<>>),
                 newIdeaEmbeddings,
                 Hashes(generateHash(newIdea.problemStatement),
                        generateHash(newIdea.proposedSolution)))

checkIdeaUniqueness_EmbedFirst(newIdea, existingIdeas, service) ==
    LET got == getEmbeddings(newIdea, service)
        exactMatch == checkExactMatch(newIdea, existingIdeas)
    IN  IF got.threw THEN Thrown(1)
        ELSE IF Len(existingIdeas) = 0
        THEN firstIdeaResult(got.embeddings,
                             Hashes(generateHash(newIdea.problemStatement),
                                    generateHash(newIdea.proposedSolution)))
        ELSE IF exactMatch.matched THEN [rejection(exactMatch) EXCEPT !.calls = 1]
        ELSE comparison(newIdea, existingIdeas, got.embeddings)

\* lines 158-288; whatever is raised inside is caught and raised again as
\* "Failed to analyze idea uniqueness"
checkIdeaUniqueness(newIdea, existingIdeas, service) ==
    LET got == getEmbeddings(newIdea, service)
        exactMatch == checkExactMatch(newIdea, existingIdeas)
    IN  IF Len(existingIdeas) = 0
        THEN IF got.threw THEN Thrown(1)
             ELSE firstIdeaResult(got.embeddings,
                                  Hashes(generateHash(newIdea.problemStatement),
                                         generateHash(newIdea.proposedSolution)))
        ELSE IF exactMatch.matched THEN rejection(exactMatch)
        ELSE IF got.threw THEN Thrown(1)
        ELSE comparison(newIdea, existingIdeas, got.embeddings)

-----------------------------------------------------------------------------
(* Inputs of the bounded checks                                            *)

\* texts: "T", "T " (T and a trailing blank), "U", "S", "V"
TextT == <<1>>
TextTb == <<1, Blank>>
TextU == <<2>>
TextS == <<3>>
TextV == <<4>>

\* embedding vectors; their squared norms are perfect squares
VecA == Vec(<<3, 4>>)
VecNegA == Vec(<<-3, -4>>)
VecB == Vec(<<4, -3>>)
VecE == Vec(<<5, 0>>)
VecC == Vec(<<5, 12>>)
VecShort == Vec(<<5>>)
VecEmpty == Vec(<<>>)
VecZero == Vec(<<0, 0>>)

\* what the embedding service may answer for the new idea
NewEmbeddings ==
    { Emb(VecA, VecA, VecA, VecA),
      Emb(VecA, VecE, VecC, VecShort),
      Emb(VecA, VecA, Undefined, VecEmpty),
      NoEmb }

Services ==
    {[up |-> TRUE, embeddings |-> e] : e \in NewEmbeddings}
    \cup {[up |-> FALSE, embeddings |-> NoEmb]}

\* the embeddings an existing idea may carry
EntryEmbeddings ==
    { Emb(VecA, VecA, VecA, VecA),
      Emb(VecE, VecE, VecB, VecB),
      Emb(VecA, VecA, VecA, VecNegA),
      Emb(VecC, VecC, VecE, VecE),
      Emb(VecA, VecB, VecB, VecB),
      Emb(VecNegA, VecNegA, VecNegA, VecNegA),
      Emb(VecShort, VecEmpty, Undefined, VecZero),
      Emb(VecE, VecE, VecE, VecB),
      NoEmb }

\* the hashes an existing idea may carry, the new idea being (TextT, TextS)
EntryHashes ==
    { NoHashes,
      Hashes(generateHash(TextT), generateHash(TextV)),
      Hashes(generateHash(TextU), generateHash(TextS)),
      Hashes(generateHash(TextU), generateHash(TextV)) }

\* longest existingIdeas list of the pure check
MaxCorpus == 2

\* longest existingIdeas list of the ranking check
MaxRanked == 10

Entry(id, hashes, embeddings) ==
    [_id |-> id, title |-> <<id>>, hashes |-> hashes, embeddings |-> embeddings]

\* existing ideas of the ranking check: overall similarity 1 and 0.78.. to a
\* new idea whose four vectors are VecA, both above the threshold
RankedEmbeddings ==
    { Emb(VecA, VecA, VecA, VecA),
      Emb(VecC, VecC, VecE, VecE) }

NoOutcome ==
    Outcome("none", NaN, NoFieldNumbers, <<>>, Expl("", "", <<>>, <<>>),
            NoEmb, NoHashes, 0)

-----------------------------------------------------------------------------
(* The server: rooms, the Idea collection and submitIdea requests          *)

TitleA == <<5>>
TitleB == <<6>>
Filled == <<9>>
Missing == <<>>

\* rooms r1 and r2 exist and are active at first, r3 exists and has expired,
\* and no room has the id r0
RoomIds == {"r1", "r2", "r3"}

NoRoom == "r0"

\* request slots: the submitIdea requests that may be in flight together
NumSlots == 2

Slots == 1..NumSlots

\* number of submitIdea requests received in one behaviour
MaxRequests == 2

RequiredFields == <<"title", "description", "domain", "problemStatement",
                    "proposedSolution", "authorName", "roomId">>

Body(title, ps, sol, roomId) ==
    [title |-> title, description |-> Filled, domain |-> Filled,
     problemStatement |-> ps, proposedSolution |-> sol,
     authorName |-> Filled, roomId |-> roomId]

\* request bodies with every required field present
FullBodies ==
    {Body(t, ps, sol, r) : t \in {TitleA, TitleB}, ps \in {TextT, TextTb, TextU},
                           sol \in {TextS, TextV}, r \in {"r1", "r2"}}
    \cup {Body(TitleA, TextT, TextS, r) : r \in {"r3", NoRoom}}

\* request bodies with required fields missing or empty
PartialBodies ==
    {[Body(TitleA, TextT, TextS, "r1") EXCEPT ![f] = IF f = "roomId" THEN "" ELSE Missing]
        : f \in {RequiredFields[i] : i \in 1..Len(RequiredFields)}}
    \cup {[Body(Missing, TextT, Missing, "") EXCEPT !.domain = Missing]}
    \cup {Body(Missing, TextT, TextS, NoRoom)}

Bodies == FullBodies \cup PartialBodies

\* !req.body[field]: an absent or empty string is falsy
Falsy(body, f) == IF f = "roomId" THEN body.roomId = "" ELSE body[f] = Missing

missingFieldsOf_FirstOnly(body) ==
    Slice(Filter(RequiredFields,
                 {f \in {RequiredFields[i] : i \in 1..Len(RequiredFields)} : Falsy(body, f)}),
          1)

\* requiredFields.filter((field) => !req.body[field])
missingFieldsOf(body) ==
    Filter(RequiredFields,
           {f \in {RequiredFields[i] : i \in 1..Len(RequiredFields)} : Falsy(body, f)})

\* what the embedding service may answer in the server model
ServiceEmbeddings ==
    { Emb(VecA, VecA, VecA, VecA),
      Emb(VecA, VecA, VecA, VecNegA),
      NoEmb }

\* a document as Idea.find hands it over: nested paths are always objects,
\* array paths are arrays
Hydrate(doc) ==
    [_id |-> doc._id, title |-> doc.title, hashes |-> doc.hashes,
     embeddings |-> doc.embeddings]

RECURSIVE FindIdeas(_, _, _)
\* Idea.find({ roomId }) on the first n documents of the collection
FindIdeas(coll, n, roomId) ==
    IF n = 0 THEN <<>>
    ELSE FindIdeas(coll, n - 1, roomId) \o
         (IF coll[n].roomId = roomId THEN <<Hydrate(coll[n])>> ELSE <<>>)

NoResponse == [status |-> 0, error |-> "", missingFields |-> <<>>,
               explanation |-> Expl("", "", <<>>, <<>>)]

Response(status, error, missingFields, explanation) ==
    [status |-> status, error |-> error, missingFields |-> missingFields,
     explanation |-> explanation]

IdleRequest ==
    [pc |-> "idle", body |-> Body(Missing, Missing, Missing, ""), snap |-> 0,
     outcome |-> NoOutcome, res |-> NoResponse, wrote |-> 0, providerWasUp |-> TRUE]

\* embeddings as the schema stores them: every field an array, empty when the
\* value given is undefined
StoredEmbeddings(e) ==
    [def |-> TRUE,
     vec |-> ByField(LAMBDA f : IF e.def /\ e.vec[f].def THEN e.vec[f] ELSE VecEmpty)]

NewIdea_Defaults(body, outcome, id) ==
    [_id |-> id,
     roomId |-> body.roomId,
     title |-> Trim(body.title),
     description |-> Trim(body.description),
     domain |-> Trim(body.domain),
     problemStatement |-> Trim(body.problemStatement),
     proposedSolution |-> Trim(body.proposedSolution),
     authorName |-> Trim(body.authorName),
     uniquenessScore |-> Num(0),
     fieldUniqueness |-> AllUnique,
     embeddings |-> StoredEmbeddings(NoEmb),
     hashes |-> outcome.hashes,
     similarIdeas |-> <<>>,
     isAnalyzed |-> FALSE]

\* new Idea({...newIdea, ...analysis, isAnalyzed: true}): String paths are
\* trimmed by their setters, the analysis is taken from the outcome
NewIdea(body, outcome, id) ==
    [_id |-> id,
     roomId |-> body.roomId,
     title |-> Trim(body.title),
     description |-> Trim(body.description),
     domain |-> Trim(body.domain),
     problemStatement |-> Trim(body.problemStatement),
     proposedSolution |-> Trim(body.proposedSolution),
     authorName |-> Trim(body.authorName),
     uniquenessScore |-> outcome.uniquenessScore,
     fieldUniqueness |-> outcome.fieldUniqueness.val,
     embeddings |-> StoredEmbeddings(outcome.embeddings),
     hashes |-> outcome.hashes,
     similarIdeas |-> outcome.similarIdeas,
     isAnalyzed |-> TRUE]

\* the `required` validators of the schema, run by save() on the trimmed values
PassesValidation(doc) ==
    /\ doc.title # Missing /\ doc.description # Missing /\ doc.domain # Missing
    /\ doc.problemStatement # Missing /\ doc.proposedSolution # Missing
    /\ doc.authorName # Missing

\* the unique index on title, over the whole collection
TitleTaken(coll, title) == \E i \in 1..Len(coll) : coll[i].title = title

-----------------------------------------------------------------------------
(* submitIdea, split where it awaits                                       *)

Receive_IgnoreExpiry(s, body) ==
    /\ req[s].pc \in {"idle", "done"}
    /\ received < MaxRequests
    /\ received' = received + 1
    /\ LET fresh == [IdleRequest EXCEPT !.body = body]
           missingFields == missingFieldsOf(body)
       IN  req' = [req EXCEPT ![s] =
              IF Len(missingFields) > 0
              THEN [fresh EXCEPT !.pc = "done",
                       !.res = Response(400, "Missing required fields", missingFields,
                                        Expl("", "", <<>>, <<>>))]
              ELSE IF body.roomId \notin RoomIds \/ rooms[body.roomId] = "none"
              THEN [fresh EXCEPT !.pc = "done",
                       !.res = Response(404, "Room not found", <<>>,
                                        Expl("", "", <<>>, <<>>))]
              ELSE IF rooms[body.roomId] = "inactive"
              THEN [fresh EXCEPT !.pc = "done",
                       !.res = Response(400, "This room is no longer active or has expired",
                                        <<>>, Expl("", "", <<>>, <<>>))]
              ELSE [fresh EXCEPT !.pc = "check", !.snap = Len(ideas)]]
    /\ UNCHANGED <<rooms, ideas, providerUp, cNew, cEmb, cCorpus, cResult>>

\* lines 17-65: validation, Room.findById, the active/expiry test and
\* Idea.find; a request that passes them holds the corpus as of this moment
Receive(s, body) ==
    /\ req[s].pc \in {"idle", "done"}
    /\ received < MaxRequests
    /\ received' = received + 1
    /\ LET fresh == [IdleRequest EXCEPT !.body = body]
           missingFields == missingFieldsOf(body)
       IN  req' = [req EXCEPT ![s] =
              IF Len(missingFields) > 0
              THEN [fresh EXCEPT !.pc = "done",
                       !.res = Response(400, "Missing required fields", missingFields,
                                        Expl("", "", <<>>, <<>>))]
              ELSE IF body.roomId \notin RoomIds \/ rooms[body.roomId] = "none"
              THEN [fresh EXCEPT !.pc = "done",
                       !.res = Response(404, "Room not found", <<>>,
                                        Expl("", "", <<>>, <<>>))]
              ELSE IF rooms[body.roomId] # "active"
              THEN [fresh EXCEPT !.pc = "done",
                       !.res = Response(400, "This room is no longer active or has expired",
                                        <<>>, Expl("", "", <<>>, <<>>))]
              ELSE [fresh EXCEPT !.pc = "check", !.snap = Len(ideas)]]
    /\ UNCHANGED <<rooms, ideas, providerUp, cNew, cEmb, cCorpus, cResult>>

\* lines 83-89 and 138-144: what becomes of the request once the check has
\* ended
Answered(r, uniquenessResult, up) ==
    IF uniquenessResult.kind = "throw"
    THEN [r EXCEPT !.outcome = uniquenessResult, !.providerWasUp = up,
                   !.pc = "done",
                   !.res = Response(500, "Failed to analyze idea uniqueness", <<>>,
                                    Expl("", "", <<>>, <<>>))]
    ELSE IF uniquenessResult.isRejected
    THEN [r EXCEPT !.outcome = uniquenessResult, !.providerWasUp = up,
                   !.pc = "done",
                   !.res = Response(400, "Idea rejected", <<>>,
                                    uniquenessResult.explanation)]
    ELSE [r EXCEPT !.outcome = uniquenessResult, !.providerWasUp = up,
                   !.pc = "save"]

Unanswered(r, uniquenessResult, up) ==
    IF uniquenessResult.kind = "throw"
    THEN [r EXCEPT !.outcome = uniquenessResult, !.providerWasUp = up,
                   !.pc = "done",
                   !.res = Response(500, "Failed to analyze idea uniqueness", <<>>,
                                    Expl("", "", <<>>, <<>>))]
    ELSE [r EXCEPT !.outcome = uniquenessResult, !.providerWasUp = up,
                   !.pc = "save"]

Check_PersistRejected(s, answer) ==
    /\ req[s].pc = "check"
    /\ req' = [req EXCEPT ![s] =
          Unanswered(req[s],
                     checkIdeaUniqueness(req[s].body,
                                         FindIdeas(ideas, req[s].snap, req[s].body.roomId),
                                         [up |-> providerUp, embeddings |-> answer]),
                     providerUp)]
    /\ UNCHANGED <<rooms, ideas, providerUp, received, cNew, cEmb, cCorpus, cResult>>

\* lines 80-89 and the catch of 138-144: checkIdeaUniqueness on the corpus
\* read before, with whatever the embedding service answers now
Check(s, answer) ==
    /\ req[s].pc = "check"
    /\ req' = [req EXCEPT ![s] =
          Answered(req[s],
                   checkIdeaUniqueness(req[s].body,
                                       FindIdeas(ideas, req[s].snap, req[s].body.roomId),
                                       [up |-> providerUp, embeddings |-> answer]),
                   providerUp)]
    /\ UNCHANGED <<rooms, ideas, providerUp, received, cNew, cEmb, cCorpus, cResult>>

Save_Rescore(s) ==
    /\ req[s].pc = "save"
    /\ LET idea == NewIdea(req[s].body, req[s].outcome, Len(ideas) + 1)
       IN  IF PassesValidation(idea) /\ ~TitleTaken(ideas, idea.title)
           THEN /\ ideas' = Append([i \in 1..Len(ideas) |->
                                        IF ideas[i].roomId = idea.roomId
                                        THEN [ideas[i] EXCEPT !.uniquenessScore =
                                                                  idea.uniquenessScore]
                                        ELSE ideas[i]],
                                    idea)
                /\ req' = [req EXCEPT ![s].pc = "done", ![s].wrote = idea._id,
                              ![s].res = Response(201, "", <<>>,
                                                  req[s].outcome.explanation)]
           ELSE /\ ideas' = ideas
                /\ req' = [req EXCEPT ![s].pc = "done",
                              ![s].res = Response(500, "save failed", <<>>,
                                                  Expl("", "", <<>>, <<>>))]
    /\ UNCHANGED <<rooms, providerUp, received, cNew, cEmb, cCorpus, cResult>>

Save_HashUnique(s) ==
    /\ req[s].pc = "save"
    /\ LET idea == NewIdea(req[s].body, req[s].outcome, Len(ideas) + 1)
       IN  IF /\ PassesValidation(idea) /\ ~TitleTaken(ideas, idea.title)
              /\ \A i \in 1..Len(ideas) :
                    ideas[i].roomId = idea.roomId =>
                        ideas[i].hashes.problemStatement # idea.hashes.problemStatement
           THEN /\ ideas' = Append(ideas, idea)
                /\ req' = [req EXCEPT ![s].pc = "done", ![s].wrote = idea._id,
                              ![s].res = Response(201, "", <<>>,
                                                  req[s].outcome.explanation)]
           ELSE /\ ideas' = ideas
                /\ req' = [req EXCEPT ![s].pc = "done",
                              ![s].res = Response(500, "save failed", <<>>,
                                                  Expl("", "", <<>>, <<>>))]
    /\ UNCHANGED <<rooms, providerUp, received, cNew, cEmb, cCorpus, cResult>>

\* lines 91-137: the document is built and saved by one insert; save() raises
\* on a schema validation error or a duplicate title
Save(s) ==
    /\ req[s].pc = "save"
    /\ LET idea == NewIdea(req[s].body, req[s].outcome, Len(ideas) + 1)
       IN  IF PassesValidation(idea) /\ ~TitleTaken(ideas, idea.title)
           THEN /\ ideas' = Append(ideas, idea)
                /\ req' = [req EXCEPT ![s].pc = "done", ![s].wrote = idea._id,
                              ![s].res = Response(201, "", <<>>,
                                                  req[s].outcome.explanation)]
           ELSE /\ ideas' = ideas
                /\ req' = [req EXCEPT ![s].pc = "done",
                              ![s].res = Response(500, "save failed", <<>>,
                                                  Expl("", "", <<>>, <<>>))]
    /\ UNCHANGED <<rooms, providerUp, received, cNew, cEmb, cCorpus, cResult>>

\* the embedding service goes down or comes back
ProviderFlip ==
    /\ providerUp' = ~providerUp
    /\ UNCHANGED <<rooms, ideas, req, received, cNew, cEmb, cCorpus, cResult>>

\* the clock passes the expiresAt of room r2
Expire ==
    /\ rooms["r2"] = "active"
    /\ rooms' = [rooms EXCEPT !["r2"] = "expired"]
    /\ UNCHANGED <<ideas, providerUp, req, received, cNew, cEmb, cCorpus, cResult>>

Init ==
    /\ rooms = [r \in RoomIds |-> IF r = "r3" THEN "expired" ELSE "active"]
    /\ ideas = <<>>
    /\ providerUp = TRUE
    /\ req = [s \in Slots |-> IdleRequest]
    /\ received = 0
    /\ cNew = Body(TitleA, TextT, TextS, "r1")
    /\ cEmb = [up |-> TRUE, embeddings |-> NoEmb]
    /\ cCorpus = <<>>
    /\ cResult = NoOutcome

Next ==
    \/ \E s \in Slots, body \in Bodies : Receive(s, body)
    \/ \E s \in Slots, answer \in ServiceEmbeddings : Check(s, answer)
    \/ \E s \in Slots : Save(s)
    \/ ProviderFlip
    \/ Expire

Spec == Init /\ [][Next]_vars

-----------------------------------------------------------------------------
(* checkIdeaUniqueness on its own, over bounded inputs                     *)

ServerIdle ==
    /\ rooms = [r \in RoomIds |-> IF r = "r3" THEN "expired" ELSE "active"]
    /\ ideas = <<>>
    /\ providerUp = TRUE
    /\ req = [s \in Slots |-> IdleRequest]
    /\ received = 0

\* one more existing idea is put at the end of the list
AddEntry(hashes, embeddings) ==
    /\ cResult.kind = "none"
    /\ Len(cCorpus) < MaxCorpus
    /\ cCorpus' = Append(cCorpus, Entry(Len(cCorpus) + 1, hashes, embeddings))
    /\ UNCHANGED <<rooms, ideas, providerUp, req, received, cNew, cEmb, cResult>>

\* the call checkIdeaUniqueness(newIdea, existingIdeas)
RunCheck ==
    /\ cResult.kind = "none"
    /\ cResult' = checkIdeaUniqueness(cNew, cCorpus, cEmb)
    /\ UNCHANGED <<rooms, ideas, providerUp, req, received, cNew, cEmb, cCorpus>>

InitCheck ==
    /\ ServerIdle
    /\ cNew = Body(TitleA, TextT, TextS, "r1")
    /\ cEmb \in Services
    /\ cCorpus = <<>>
    /\ cResult = NoOutcome

NextCheck ==
    \/ \E h \in EntryHashes, e \in EntryEmbeddings : AddEntry(h, e)
    \/ RunCheck

SpecCheck == InitCheck /\ [][NextCheck]_vars

\* one more existing idea, none sharing a hash with the new idea
AddRanked(embeddings) ==
    /\ cResult.kind = "none"
    /\ Len(cCorpus) < MaxRanked
    /\ cCorpus' = Append(cCorpus,
                         Entry(Len(cCorpus) + 1,
                               Hashes(generateHash(TextU), generateHash(TextV)),
                               embeddings))
    /\ UNCHANGED <<rooms, ideas, providerUp, req, received, cNew, cEmb, cResult>>

InitRank ==
    /\ ServerIdle
    /\ cNew = Body(TitleA, TextT, TextS, "r1")
    /\ cEmb = [up |-> TRUE, embeddings |-> Emb(VecA, VecA, VecA, VecA)]
    /\ cCorpus = <<>>
    /\ cResult = NoOutcome

NextRank ==
    \/ \E e \in RankedEmbeddings : AddRanked(e)
    \/ RunCheck

SpecRank == InitRank /\ [][NextRank]_vars

-----------------------------------------------------------------------------
(* The requests made to the embedding service, over bounded inputs         *)

\* a string value that may be undefined
Str(t) == [def |-> TRUE, t |-> t]

NoStr == [def |-> FALSE, t |-> <<>>]

\* !!value of a string: undefined and "" are falsy
Truthy(x) == x.def /\ x.t # <<>>

StringValues == {NoStr, Str(<<>>), Str(TextT)}

\* the objects handed to getEmbeddings and to generatePaperEmbeddings
IdeaTexts ==
    {[kind |-> "idea",
      data |-> [problemStatement |-> ps, proposedSolution |-> sol,
                description |-> desc, domain |-> dom]]
        : ps \in StringValues, sol \in StringValues,
          desc \in StringValues, dom \in StringValues}

PaperTexts ==
    {[kind |-> "paper", data |-> [abstract |-> a, conclusion |-> c]]
        : a \in StringValues, c \in StringValues}

NoRequest == [kind |-> "none", posted |-> FALSE, keys |-> {}, body |-> <<>>]

\* getEmbeddings, lines 61-66: the object given to axios.post has the four
\* keys whatever their values; serialised as JSON it keeps every key whose
\* value is not undefined, the empty string included
ideaRequest(idea) ==
    LET requestData == [problemStatement |-> idea.problemStatement,
                        proposedSolution |-> idea.proposedSolution,
                        description |-> idea.description,
                        domain |-> idea.domain]
    IN  [kind |-> "idea", posted |-> TRUE,
         keys |-> {f \in FieldSet : requestData[f].def},
         body |-> requestData]

\* generatePaperEmbeddings, lines 310-323: only truthy fields enter
\* requestData, and with no key at all {} is returned without a request
paperRequest(data) ==
    LET keys == (IF Truthy(data.abstract) THEN {"abstract"} ELSE {})
                \cup (IF Truthy(data.conclusion) THEN {"conclusion"} ELSE {})
    IN  [kind |-> "paper", posted |-> keys # {}, keys |-> keys, body |-> data]

PostIdea ==
    /\ cNew.kind = "idea"
    /\ cResult = NoRequest
    /\ cResult' = ideaRequest(cNew.data)
    /\ UNCHANGED <<rooms, ideas, providerUp, req, received, cNew, cEmb, cCorpus>>

PostPaper ==
    /\ cNew.kind = "paper"
    /\ cResult = NoRequest
    /\ cResult' = paperRequest(cNew.data)
    /\ UNCHANGED <<rooms, ideas, providerUp, req, received, cNew, cEmb, cCorpus>>

InitEmbed ==
    /\ ServerIdle
    /\ cNew \in IdeaTexts \cup PaperTexts
    /\ cEmb = [up |-> TRUE, embeddings |-> NoEmb]
    /\ cCorpus = <<>>
    /\ cResult = NoRequest

NextEmbed == PostIdea \/ PostPaper

SpecEmbed == InitEmbed /\ [][NextEmbed]_vars

-----------------------------------------------------------------------------
(* cosineSimilarity, calculateFieldSimilarity and similarityToUniqueness   *)
(* on their own, over bounded inputs                                       *)

VecZeroShort == Vec(<<0>>)

\* the vectors cosineSimilarity is applied to
CosineVectors ==
    {Undefined, VecEmpty, VecZero, VecZeroShort, VecShort,
     VecA, VecNegA, VecB, VecE, VecC}

\* embeddings of a new idea with any of its vectors absent
PartialNewEmbeddings ==
    {Emb(ps, sol, desc, dom) : ps \in {VecA, Undefined}, sol \in {VecA, Undefined},
                               desc \in {VecA, Undefined}, dom \in {VecA, Undefined}}

\* existing ideas with no embeddings, or with some of their vectors absent
\* or empty
PartialEntries ==
    {Entry(1, NoHashes, NoEmb)}
    \cup {Entry(1, NoHashes, Emb(ps, sol, VecB, VecA))
            : ps \in {VecA, Undefined, VecEmpty}, sol \in {VecE, Undefined, VecShort}}

\* similarity scores, within 0-1 and beyond
SimilarityValues ==
    {Rat(-1, 1), Rat(-1, 2), Num(0), Rat(3, 1000), Rat(1, 200), Rat(3, 10),
     Rat(1, 3), Rat(1, 2), Rat(199, 200), Num(1), Rat(201, 200), Rat(3, 2)}

\* per-field similarities of a candidate: cosines, at and around 0.5
CandidateSimilarities ==
    {Rat(-1, 1), Num(0), Rat(1, 2), Rat(101, 200), Rat(3, 5), Num(1)}

\* the fieldSimilarity objects of candidates: only an idea whose overall
\* similarity is above the threshold is given an explanation (line 240)
CandidateInputs ==
    LET mean(a, b, c, d) == Div(Add(Add(Add(a, b), c), d), Num(4))
    IN  {[kind |-> "candidate",
          fieldSimilarity |-> [problemStatement |-> a, proposedSolution |-> b,
                               description |-> c, domain |-> d],
          ideaTitle |-> t]
            : <<a, b, c, d, t>> \in
                {x \in CandidateSimilarities \X CandidateSimilarities
                        \X CandidateSimilarities \X CandidateSimilarities
                        \X {TitleA, TitleB} :
                    includes(mean(x[1], x[2], x[3], x[4]))}}

\* per-field lowest uniqueness values: integers from 0 to 100
LowestValues == {Num(0), Num(20), Num(40), Num(60), Num(80), Num(100)}

LowestInputs ==
    {[kind |-> "lowest",
      lowestUniqueness |-> [problemStatement |-> a, proposedSolution |-> b,
                            description |-> c, domain |-> d]]
        : a \in LowestValues, b \in LowestValues,
          c \in LowestValues, d \in LowestValues}

MathInputs ==
    CandidateInputs \cup LowestInputs
    \cup {[kind |-> "vectors", vecA |-> a, vecB |-> b] : a \in CosineVectors, b \in CosineVectors}
    \cup {[kind |-> "fields", newIdeaEmbeddings |-> n, existingIdea |-> e]
            : n \in PartialNewEmbeddings, e \in PartialEntries}
    \cup {[kind |-> "scores", low |-> x, high |-> y]
            : x \in SimilarityValues, y \in SimilarityValues}

NoValue == [kind |-> "none"]

ApplyCosine ==
    /\ cNew.kind = "vectors"
    /\ cResult = NoValue
    /\ cResult' = [kind |-> "cosine", value |-> cosineSimilarity(cNew.vecA, cNew.vecB)]
    /\ UNCHANGED <<rooms, ideas, providerUp, req, received, cNew, cEmb, cCorpus>>

ApplyFieldSimilarity ==
    /\ cNew.kind = "fields"
    /\ cResult = NoValue
    /\ cResult' = [kind |-> "similarity",
                   value |-> calculateFieldSimilarity(cNew.newIdeaEmbeddings,
                                                      cNew.existingIdea)]
    /\ UNCHANGED <<rooms, ideas, providerUp, req, received, cNew, cEmb, cCorpus>>

ApplyUniqueness ==
    /\ cNew.kind = "scores"
    /\ cResult = NoValue
    /\ cResult' = [kind |-> "uniqueness",
                   low |-> similarityToUniqueness(cNew.low),
                   high |-> similarityToUniqueness(cNew.high)]
    /\ UNCHANGED <<rooms, ideas, providerUp, req, received, cNew, cEmb, cCorpus>>

\* lines 254-257: the explanation of one candidate
ExplainCandidate ==
    /\ cNew.kind = "candidate"
    /\ cResult = NoValue
    /\ cResult' = [kind |-> "explained",
                   value |-> generateSimilarityExplanation(cNew.fieldSimilarity,
                                                           cNew.ideaTitle)]
    /\ UNCHANGED <<rooms, ideas, providerUp, req, received, cNew, cEmb, cCorpus>>

\* lines 265-268 and 277-280: the overall score of the four lowest values
\* and the explanation made from them
ExplainOverall ==
    /\ cNew.kind = "lowest"
    /\ cResult = NoValue
    /\ cResult' = [kind |-> "overall",
                   score |-> overallOf(cNew.lowestUniqueness),
                   value |-> generateUniquenessExplanation(
                                 overallOf(cNew.lowestUniqueness),
                                 cNew.lowestUniqueness)]
    /\ UNCHANGED <<rooms, ideas, providerUp, req, received, cNew, cEmb, cCorpus>>

InitMath ==
    /\ ServerIdle
    /\ cNew \in MathInputs
    /\ cEmb = [up |-> TRUE, embeddings |-> NoEmb]
    /\ cCorpus = <<>>
    /\ cResult = NoValue

NextMath ==
    \/ ApplyCosine \/ ApplyFieldSimilarity \/ ApplyUniqueness
    \/ ExplainCandidate \/ ExplainOverall

SpecMath == InitMath /\ [][NextMath]_vars

-----------------------------------------------------------------------------
(* Properties of checkIdeaUniqueness (SpecCheck, SpecRank)                 *)

\* an integer within [0, 100]
Percent(x) == ~IsNaN(x) /\ IsInteger(x) /\ 0 <= x[1] /\ x[1] <= 100

\* the similarity of the new idea to the i-th existing idea, from the
\* embeddings the service answered
SimilarityTo(i) == calculateFieldSimilarity(cEmb.embeddings, cCorpus[i])

WithEmbeddings == {i \in 1..Len(cCorpus) : cCorpus[i].embeddings.def}

\* existing ideas whose overall similarity is strictly above 0.30
AboveThreshold == {i \in WithEmbeddings : Gt(SimilarityTo(i).overallSimilarity, Rat(3, 10))}

Listed == {cResult.similarIdeas[k].ideaId : k \in 1..Len(cResult.similarIdeas)}

\* C3: with an empty corpus checkIdeaUniqueness never rejects, and what it
\* returns has uniquenessScore 100, no similar ideas and 100 for each of the
\* four fields; it returns whenever the embedding service answers
C3_EmptyCorpusFullyUnique ==
    (cResult.kind # "none" /\ Len(cCorpus) = 0) =>
        /\ cResult.kind # "rejected" /\ ~cResult.isRejected
        /\ cEmb.up => cResult.kind = "scored"
        /\ cResult.kind = "scored" =>
              /\ cResult.uniquenessScore = Num(100)
              /\ cResult.similarIdeas = <<>>
              /\ cResult.fieldUniqueness.def
              /\ \A f \in FieldSet : cResult.fieldUniqueness.val[f] = Num(100)

C3_Witness ==
    cResult.kind = "scored" /\ Len(cCorpus) = 0 /\ cResult.uniquenessScore = Num(100)

\* C6: similarIdeas has at most 5 entries in non-increasing order of
\* similarityScore; it has min(5, number of ideas above the threshold)
\* entries, and no idea left out scores higher than one that is listed
C6_TopFiveSorted ==
    cResult.kind = "scored" =>
        LET sim == cResult.similarIdeas
            scoreOf(i) == MathRound(Mul(SimilarityTo(i).overallSimilarity, Num(100)))
        IN  /\ Len(sim) <= 5
            /\ \A k \in 1..(Len(sim) - 1) :
                  ~Lt(sim[k].similarityScore, sim[k + 1].similarityScore)
            /\ Len(sim) = (IF Cardinality(AboveThreshold) < 5
                           THEN Cardinality(AboveThreshold) ELSE 5)
            /\ Cardinality(Listed) = Len(sim)
            /\ Listed \subseteq AboveThreshold
            /\ \A k \in 1..Len(sim) : sim[k].similarityScore = scoreOf(sim[k].ideaId)
            /\ \A i \in AboveThreshold \ Listed, k \in 1..Len(sim) :
                  ~Gt(scoreOf(i), sim[k].similarityScore)

C6_Witness ==
    /\ cResult.kind = "scored"
    /\ Len(cCorpus) = 10
    /\ Cardinality(AboveThreshold) = 10
    /\ Len(cResult.similarIdeas) = 5
    /\ cResult.similarIdeas[1].similarityScore # cResult.similarIdeas[5].similarityScore
    /\ cResult.similarIdeas[1].ideaId > cResult.similarIdeas[5].ideaId

\* C7: an existing idea is listed in similarIdeas only if its overall
\* similarity is strictly greater than 0.30; at exactly 0.30 it is left out
C7_ThresholdExclusive ==
    cResult.kind = "scored" =>
        /\ Listed \subseteq AboveThreshold
        /\ \A i \in WithEmbeddings :
              SimilarityTo(i).overallSimilarity = Rat(3, 10) => i \notin Listed

C7_Witness ==
    /\ cResult.kind = "scored"
    /\ \E i \in WithEmbeddings :
          SimilarityTo(i).overallSimilarity = Rat(3, 10) /\ i \notin Listed
    /\ Listed # {}

\* Math.min over a set of numbers, NaN if one of them is NaN
Minimum(S) ==
    IF \E x \in S : IsNaN(x) THEN NaN
    ELSE CHOOSE x \in S : \A y \in S : ~Lt(y, x)

\* round((1 - similarity_f) * 100) over the existing ideas with embeddings
FieldScores(f) ==
    {MathRound(Mul(Sub(Num(1), SimilarityTo(i).fieldSimilarity[f]), Num(100)))
        : i \in WithEmbeddings}

MeanOfFields(val) ==
    MathRound(Div(Add(Add(Add(val.problemStatement, val.proposedSolution),
                          val.description), val.domain), Num(4)))

\* one existing idea, problem-statement similarity 1 and the other three 0
OneEntryExample ==
    /\ cResult.kind = "scored"
    /\ Len(cCorpus) = 1
    /\ WithEmbeddings = {1}
    /\ SimilarityTo(1).fieldSimilarity =
          [problemStatement |-> Num(1), proposedSolution |-> Num(0),
           description |-> Num(0), domain |-> Num(0)]

\* C8 as stated: on the comparison path each fieldUniqueness[f] is the
\* minimum over the existing ideas with embeddings of
\* round((1 - similarity_f) * 100), 100 when there is none, uniquenessScore is
\* the rounded mean of the four, and the one-entry example gives
\* (0, 100, 100, 100) and overall 25
C8_FieldMinimum ==
    (cResult.kind = "scored" /\ Len(cCorpus) > 0) =>
        /\ \A f \in FieldSet :
              cResult.fieldUniqueness.val[f] =
                  (IF WithEmbeddings = {} THEN Num(100) ELSE Minimum(FieldScores(f)))
        /\ cResult.uniquenessScore = MeanOfFields(cResult.fieldUniqueness.val)
        /\ OneEntryExample =>
              /\ cResult.fieldUniqueness.val =
                    [problemStatement |-> Num(0), proposedSolution |-> Num(100),
                     description |-> Num(100), domain |-> Num(100)]
              /\ cResult.uniquenessScore = Num(25)

\* C8 amended: each fieldUniqueness[f] is the minimum of 100 and of the
\* values round((1 - similarity_f) * 100) that are numbers, over the existing
\* ideas with embeddings; uniquenessScore is the rounded mean of the four; the
\* one-entry example gives (0, 100, 100, 100) and overall 75
C8_FieldMinimumCapped ==
    (cResult.kind = "scored" /\ Len(cCorpus) > 0) =>
        /\ \A f \in FieldSet :
              cResult.fieldUniqueness.val[f] =
                  Minimum({Num(100)} \cup {u \in FieldScores(f) : ~IsNaN(u)})
        /\ cResult.uniquenessScore = MeanOfFields(cResult.fieldUniqueness.val)
        /\ OneEntryExample =>
              /\ cResult.fieldUniqueness.val =
                    [problemStatement |-> Num(0), proposedSolution |-> Num(100),
                     description |-> Num(100), domain |-> Num(100)]
              /\ cResult.uniquenessScore = Num(75)

C8_Witness ==
    /\ OneEntryExample
    /\ cResult.uniquenessScore = Num(75)
    /\ cResult.fieldUniqueness.val.problemStatement = Num(0)

\* a second existing idea pointing away from the new one leaves the example's
\* result as it is
C8_CappedReached ==
    /\ cResult.kind = "scored"
    /\ Len(cCorpus) = 2
    /\ \E i \in WithEmbeddings, f \in FieldSet : Gt(Minimum(FieldScores(f)), Num(100))
    /\ \E f \in FieldSet : cResult.fieldUniqueness.val[f] = Num(100)

\* C9: every result of checkIdeaUniqueness has an integer uniquenessScore
\* within [0, 100] and, where it has them, integer fieldUniqueness values
\* within [0, 100]; so has the idea document built from a scored result
C9_ScoresArePercentages ==
    cResult.kind \in {"scored", "rejected"} =>
        /\ Percent(cResult.uniquenessScore)
        /\ cResult.fieldUniqueness.def =>
              \A f \in FieldSet : Percent(cResult.fieldUniqueness.val[f])
        /\ cResult.kind = "scored" =>
              /\ cResult.fieldUniqueness.def
              /\ LET idea == NewIdea(cNew, cResult, 1)
                 IN  /\ Percent(idea.uniquenessScore)
                     /\ \A f \in FieldSet : Percent(idea.fieldUniqueness[f])

C9_Witness ==
    /\ cResult.kind = "scored"
    /\ \E i \in WithEmbeddings, f \in FieldSet :
          Lt(SimilarityTo(i).fieldSimilarity[f], Num(0))
    /\ \E i \in WithEmbeddings, f \in FieldSet :
          IsNaN(SimilarityTo(i).fieldSimilarity[f])
    /\ Gt(cResult.uniquenessScore, Num(0)) /\ Lt(cResult.uniquenessScore, Num(100))

\* C10: every entry of similarIdeas a comparison produces has a
\* similarityScore within [0, 100] and four per-field similarity values each
\* within [0, 100]
C10_ComparedPercentages ==
    cResult.kind = "scored" =>
        \A k \in 1..Len(cResult.similarIdeas), f \in FieldSet :
            /\ Percent(cResult.similarIdeas[k].similarityScore)
            /\ Percent(cResult.similarIdeas[k].fieldSimilarity.val[f])

-----------------------------------------------------------------------------
(* Properties of submitIdea (Spec)                                         *)

\* the request in slot s has had its uniqueness check
Checked(s) == req[s].pc \in {"save", "done"} /\ req[s].outcome.kind # "none"

\* the ideas of the request's room that were stored when it read the corpus
StoredBefore(s) ==
    {i \in 1..req[s].snap : ideas[i].roomId = req[s].body.roomId}

\* C1: once an idea with problem-statement text T is stored in a room, every
\* later submitIdea to that room with problem-statement text T is rejected,
\* and likewise for an identical proposed-solution text
C1_IdenticalTextRejected ==
    \A s \in Slots :
        (/\ Checked(s)
         /\ \E i \in StoredBefore(s) :
               \/ ideas[i].problemStatement = req[s].body.problemStatement
               \/ ideas[i].proposedSolution = req[s].body.proposedSolution)
        => /\ req[s].outcome.isRejected
           /\ req[s].pc = "done"
           /\ req[s].res.status = 400
           /\ req[s].res.error = "Idea rejected"

\* C2: a request whose check reports an exact-match rejection is answered
\* 400 "Idea rejected" with the explanation and writes nothing: the step that
\* answers it leaves the stored ideas as they were
C2_RejectedNotPersisted ==
    /\ [](\A s \in Slots :
            req[s].outcome.isRejected =>
                /\ req[s].pc = "done"
                /\ req[s].res = Response(400, "Idea rejected", <<>>,
                                         req[s].outcome.explanation)
                /\ req[s].wrote = 0)
    /\ [][\A s \in Slots :
            (req[s].pc = "check" /\ req'[s].outcome.isRejected) => ideas' = ideas]_vars

C2_Witness ==
    \E s \in Slots :
        /\ req[s].outcome.isRejected
        /\ req[s].res.status = 400
        /\ req[s].res.explanation.template # ""
        /\ StoredBefore(s) # {}
        /\ req[s].wrote = 0

\* C4: a request whose embedding call fails, with an empty corpus or on the
\* comparison path, ends with 500 and writes nothing; no score is produced
\* without the embeddings the service answered
C4_ProviderFailureIs500 ==
    \A s \in Slots :
        /\ (Checked(s) /\ req[s].outcome.calls > 0 /\ ~req[s].providerWasUp) =>
              /\ req[s].outcome.kind = "throw"
              /\ req[s].pc = "done"
              /\ req[s].res.status = 500
              /\ req[s].wrote = 0
        /\ (Checked(s) /\ req[s].outcome.kind = "scored") =>
              /\ req[s].providerWasUp
              /\ req[s].outcome.calls = 1
        /\ req[s].wrote # 0 => req[s].outcome.kind = "scored"

C4_Witness ==
    \E s \in Slots :
        /\ req[s].pc = "done"
        /\ req[s].outcome.kind = "throw"
        /\ req[s].outcome.calls = 1
        /\ ~req[s].providerWasUp
        /\ req[s].res.status = 500
        /\ req[s].wrote = 0
        /\ StoredBefore(s) # {}

\* C5: a request rejected for an exact match made no call to the embedding
\* service, and a request whose hashes match a stored idea of its room is
\* rejected with 400 whether the service is available or not
C5_HashCheckBeforeEmbeddings ==
    \A s \in Slots :
        Checked(s) =>
            /\ req[s].outcome.isRejected => req[s].outcome.calls = 0
            /\ (\E i \in StoredBefore(s) :
                   \/ ideas[i].hashes.problemStatement =
                          generateHash(req[s].body.problemStatement)
                   \/ ideas[i].hashes.proposedSolution =
                          generateHash(req[s].body.proposedSolution))
               => /\ req[s].outcome.isRejected
                  /\ req[s].pc = "done"
                  /\ req[s].res.status = 400

C5_Witness ==
    \E s \in Slots :
        /\ Checked(s)
        /\ req[s].outcome.isRejected
        /\ ~req[s].providerWasUp
        /\ req[s].outcome.calls = 0
        /\ req[s].res.status = 400

\* the required fields that are absent or empty in the body of slot s
EmptyFields(s) ==
    {f \in {"title", "description", "domain", "problemStatement",
            "proposedSolution", "authorName"} : req[s].body[f] = <<>>}
    \cup (IF req[s].body.roomId = "" THEN {"roomId"} ELSE {})

\* C11: a request with a required field missing or empty is answered 400
\* with exactly the missing fields, listed once each in the order of the
\* required fields, whether or not its room exists, and has read no corpus,
\* run no check and written nothing
C11_MissingFieldsAnswered400 ==
    \A s \in Slots :
        (req[s].pc # "idle" /\ EmptyFields(s) # {}) =>
            LET listed == req[s].res.missingFields
            IN  /\ req[s].pc = "done"
                /\ req[s].res.status = 400
                /\ req[s].res.error = "Missing required fields"
                /\ {listed[i] : i \in 1..Len(listed)} = EmptyFields(s)
                /\ Len(listed) = Cardinality(EmptyFields(s))
                /\ \A i, j \in 1..Len(listed) :
                      i < j => \E a, b \in 1..Len(RequiredFields) :
                                  /\ a < b
                                  /\ RequiredFields[a] = listed[i]
                                  /\ RequiredFields[b] = listed[j]
                /\ req[s].snap = 0
                /\ req[s].outcome.kind = "none"
                /\ req[s].outcome.calls = 0
                /\ req[s].wrote = 0

C11_Witness ==
    /\ \E s \in Slots :
          /\ req[s].pc = "done"
          /\ req[s].res.status = 400
          /\ Len(req[s].res.missingFields) = 4
          /\ req[s].body.roomId = ""
    /\ \E s \in Slots :
          /\ req[s].pc = "done"
          /\ req[s].res.missingFields = <<"title">>
          /\ req[s].body.roomId = NoRoom

\* the analysis stored with an idea
Analysis(idea) ==
    [uniquenessScore |-> idea.uniquenessScore,
     fieldUniqueness |-> idea.fieldUniqueness,
     similarIdeas |-> idea.similarIdeas,
     embeddings |-> idea.embeddings,
     hashes |-> idea.hashes]

\* C12: no step of a submitIdea request, whatever its outcome, changes the
\* uniquenessScore, fieldUniqueness, similarIdeas, embeddings or hashes of an
\* idea that is already stored
C12_StoredAnalysisFrozen ==
    [][\A i \in 1..Len(ideas) :
          /\ Len(ideas') >= i
          /\ Analysis(ideas'[i]) = Analysis(ideas[i])]_vars

C12_Witness ==
    /\ Len(ideas) = 2
    /\ ideas[2].roomId = ideas[1].roomId
    /\ ideas[2].similarIdeas # <<>>
    /\ ideas[2].similarIdeas[1].ideaId = 1
    /\ ideas[2].uniquenessScore # Num(100)
    /\ ideas[1].similarIdeas = <<>>
    /\ ideas[1].uniquenessScore = Num(100)

\* two finished requests to one room with the same problem-statement text,
\* each of which read the corpus before the other wrote
Raced(s, t) ==
    /\ s # t
    /\ req[s].pc = "done" /\ req[t].pc = "done"
    /\ Checked(s) /\ Checked(t)
    /\ req[s].body.roomId = req[t].body.roomId
    /\ req[s].body.problemStatement = req[t].body.problemStatement
    /\ req[s].wrote # 0 => req[t].snap < req[s].wrote
    /\ req[t].wrote # 0 => req[s].snap < req[t].wrote

\* the title of the request in slot s is that of no idea stored by another
\* request
TitleFree(s) ==
    \A i \in 1..Len(ideas) :
        i # req[s].wrote => ideas[i].title # Trim(req[s].body.title)

C14_WrittenWithItsAnalysis ==
    /\ \A s \in Slots :
          req[s].wrote # 0 =>
              LET idea == ideas[req[s].wrote]
                  produced == req[s].outcome
              IN  /\ req[s].wrote \in 1..Len(ideas)
                  /\ produced.kind = "scored"
                  /\ idea.isAnalyzed
                  /\ idea.hashes.def
                  /\ idea.hashes.problemStatement =
                         generateHash(req[s].body.problemStatement)
                  /\ idea.hashes.proposedSolution =
                         generateHash(req[s].body.proposedSolution)
                  /\ idea.uniquenessScore = produced.uniquenessScore
                  /\ idea.fieldUniqueness = produced.fieldUniqueness.val
                  /\ idea.similarIdeas = produced.similarIdeas
                  /\ \A f \in FieldSet :
                        (produced.embeddings.def /\ produced.embeddings.vec[f].def)
                        => idea.embeddings.vec[f] = produced.embeddings.vec[f]
    /\ \A i \in 1..Len(ideas) :
          /\ ideas[i].isAnalyzed
          /\ ideas[i].hashes.def
          /\ ideas[i]._id = i

C14_Witness ==
    \E s \in Slots :
        /\ req[s].wrote = 2
        /\ ideas[2].isAnalyzed
        /\ ideas[2].similarIdeas # <<>>
        /\ ideas[2].similarIdeas = req[s].outcome.similarIdeas
        /\ ideas[2].embeddings.vec.domain = VecNegA
        /\ ideas[2].hashes.problemStatement = generateHash(TextTb)
        /\ ideas[2].problemStatement = TextT

C16_PaperFieldsFiltered ==
    cResult.kind = "paper" =>
        /\ cResult.keys = {f \in DOMAIN cNew.data : Truthy(cNew.data[f])}
        /\ cResult.posted <=> cResult.keys # {}

\* the list without its i-th element
Without(list, i) == SubSeq(list, 1, i - 1) \o SubSeq(list, i + 1, Len(list))

\* C17: an existing idea without embeddings changes neither fieldUniqueness,
\* uniquenessScore nor similarIdeas, which are those of the check made
\* without it; when it has hashes and one of them equals the new idea's hash
\* for the same field, the new idea is rejected
C17_NoEmbeddingsEntrySkipped ==
    \A i \in 1..Len(cCorpus) :
        ~cCorpus[i].embeddings.def =>
            /\ cResult.kind = "scored" =>
                  LET alone == checkIdeaUniqueness(cNew, Without(cCorpus, i), cEmb)
                  IN  /\ alone.kind = "scored"
                      /\ alone.uniquenessScore = cResult.uniquenessScore
                      /\ alone.fieldUniqueness = cResult.fieldUniqueness
                      /\ alone.similarIdeas = cResult.similarIdeas
            /\ (/\ cResult.kind # "none"
                /\ cCorpus[i].hashes.def
                /\ \/ cCorpus[i].hashes.problemStatement =
                          generateHash(cNew.problemStatement)
                   \/ cCorpus[i].hashes.proposedSolution =
                          generateHash(cNew.proposedSolution))
               => (cResult.kind = "rejected" /\ cResult.isRejected)

C17_Witness ==
    /\ cResult.kind = "scored"
    /\ Len(cCorpus) = 2
    /\ ~cCorpus[1].embeddings.def
    /\ cCorpus[1].hashes.def
    /\ cCorpus[2].embeddings.def
    /\ cResult.uniquenessScore # Num(100)
    /\ Len(cResult.similarIdeas) = 1
    /\ cResult.similarIdeas[1].ideaId = 2

\* an existing idea without embeddings whose hash matches rejects the new one
C17_RejectionReached ==
    /\ cResult.kind = "rejected"
    /\ \E i \in 1..Len(cCorpus) :
          /\ ~cCorpus[i].embeddings.def
          /\ cResult.similarIdeas[1].ideaId = i

\* the fields for which a vector of the new idea or of the existing idea is
\* absent
AbsentFields ==
    {f \in FieldSet :
        \/ ~cNew.newIdeaEmbeddings.vec[f].def
        \/ ~cNew.existingIdea.embeddings.def
        \/ ~cNew.existingIdea.embeddings.vec[f].def}

\* C18: calculateFieldSimilarity yields the number 0 for every field for
\* which the new idea's vector or the existing idea's vector is absent, and
\* four times the overall similarity is the sum of the four field values
C18_AbsentVectorIsZero ==
    cResult.kind = "similarity" =>
        LET similarity == cResult.value.fieldSimilarity
        IN  /\ DOMAIN similarity = FieldSet
            /\ \A f \in AbsentFields : similarity[f] = Num(0) /\ ~IsNaN(similarity[f])
            /\ Mul(cResult.value.overallSimilarity, Num(4)) =
                   Add(Add(similarity.problemStatement, similarity.proposedSolution),
                       Add(similarity.description, similarity.domain))

C18_Witness ==
    /\ cResult.kind = "similarity"
    /\ AbsentFields = {"problemStatement", "description"}
    /\ cResult.value.fieldSimilarity.problemStatement = Num(0)
    /\ cResult.value.fieldSimilarity.proposedSolution = Rat(3, 5)
    /\ cResult.value.fieldSimilarity.domain = Num(1)
    /\ cResult.value.overallSimilarity = Rat(2, 5)

\* C19: similarityToUniqueness is round((1 - s) * 100): it does not increase
\* when s increases, and maps 0 to 100 and 1 to 0
C19_UniquenessNonIncreasing ==
    cResult.kind = "uniqueness" =>
        /\ IsInteger(cResult.low) /\ IsInteger(cResult.high)
        /\ Lt(Sub(Mul(Sub(Num(1), cNew.low), Num(100)), cResult.low), Rat(1, 2))
        /\ ~Lt(Sub(Mul(Sub(Num(1), cNew.low), Num(100)), cResult.low), Rat(-1, 2))
        /\ (Lt(cNew.low, cNew.high) \/ cNew.low = cNew.high) =>
              ~Lt(cResult.low, cResult.high)
        /\ cNew.low = Num(0) => cResult.low = Num(100)
        /\ cNew.low = Num(1) => cResult.low = Num(0)

C19_Witness ==
    /\ cResult.kind = "uniqueness"
    /\ cNew.low = Num(0) /\ cNew.high = Num(1)
    /\ cResult.low = Num(100) /\ cResult.high = Num(0)

\* two scores half a point apart share their uniqueness or differ by one
C19_RoundingReached ==
    /\ cResult.kind = "uniqueness"
    /\ cNew.low = Rat(3, 1000) /\ cNew.high = Rat(1, 200)
    /\ cResult.low = Num(100) /\ cResult.high = Num(100)

\* the sum of the squares of the components of a vector
SquaredNorm(vec) == SumTo([i \in 1..Len(vec.v) |-> Num(vec.v[i] * vec.v[i])],
                          Len(vec.v), Num(0))

\* absent, empty or of zero norm
Degenerate(vec) == ~vec.def \/ Len(vec.v) = 0 \/ SquaredNorm(vec) = Num(0)

\* C20: cosineSimilarity returns exactly 0 whenever either vector is absent
\* or empty or has zero norm
C20_DegenerateVectorIsZero ==
    cResult.kind = "cosine" =>
        ((Degenerate(cNew.vecA) \/ Degenerate(cNew.vecB)) => cResult.value = Num(0))

\* C20 for a second vector at least as long as the first
C20_DegenerateIsZeroWhenNotShorter ==
    (cResult.kind = "cosine" /\ (cNew.vecB.def => Len(cNew.vecB.v) >= Len(cNew.vecA.v))) =>
        ((Degenerate(cNew.vecA) \/ Degenerate(cNew.vecB)) => cResult.value = Num(0))

-----------------------------------------------------------------------------
(* Properties of cosineSimilarity and of the explanations (SpecMath)       *)

\* the dot product of two vectors of the same dimension
Dot(vecA, vecB) == SumTo([i \in 1..Len(vecA.v) |-> Num(vecA.v[i] * vecB.v[i])],
                         Len(vecA.v), Num(0))

\* both vectors present, of the same non-zero dimension and of non-zero norm
Regular(vecA, vecB) ==
    /\ ~Degenerate(vecA) /\ ~Degenerate(vecB)
    /\ Len(vecA.v) = Len(vecB.v)

\* C21: for all vectors a and b, cosineSimilarity(a, b) is
\* dot(a, b) / (||a|| * ||b||), and its result lies within [0, 1]
C21_CosineInUnitRange ==
    cResult.kind = "cosine" =>
        /\ Regular(cNew.vecA, cNew.vecB) =>
              cResult.value = Div(Dot(cNew.vecA, cNew.vecB),
                                  Num(MathSqrt(SquaredNorm(cNew.vecA)[1])
                                      * MathSqrt(SquaredNorm(cNew.vecB)[1])))
        /\ ~IsNaN(cResult.value)
        /\ ~Lt(cResult.value, Num(0))
        /\ ~Gt(cResult.value, Num(1))

\* C21 without the lower bound 0: for vectors of the same dimension the
\* result is the quotient and lies within [-1, 1]
C21_CosineIsQuotient ==
    (cResult.kind = "cosine" /\ Regular(cNew.vecA, cNew.vecB)) =>
        /\ cResult.value = Div(Dot(cNew.vecA, cNew.vecB),
                               Num(MathSqrt(SquaredNorm(cNew.vecA)[1])
                                   * MathSqrt(SquaredNorm(cNew.vecB)[1])))
        /\ ~Lt(cResult.value, Num(-1))
        /\ ~Gt(cResult.value, Num(1))

\* opposite vectors have been compared
C21_OppositeReached ==
    /\ cResult.kind = "cosine"
    /\ cNew.vecA = VecA /\ cNew.vecB = VecNegA
    /\ cResult.value = Num(-1)

\* the fields of the candidate whose similarity is strictly above 0.5
AboveHalf == {f \in FieldSet : Gt(cNew.fieldSimilarity[f], Rat(1, 2))}

\* the fields an explanation names
Named == {cResult.value.parts[k][1] : k \in 1..Len(cResult.value.parts)}

\* C22: generateSimilarityExplanation names at most two fields, the fields
\* with the highest similarity among those strictly above 0.5, each with its
\* rounded percentage, and the candidate's title; when no field is above 0.5
\* it returns the "Some general similarity" message
C22_TopTwoFieldsAboveHalf ==
    cResult.kind = "explained" =>
        LET parts == cResult.value.parts
        IN  /\ cResult.value.title = cNew.ideaTitle
            /\ Len(parts) = (IF Cardinality(AboveHalf) < 2
                             THEN Cardinality(AboveHalf) ELSE 2)
            /\ Cardinality(Named) = Len(parts)
            /\ Named \subseteq AboveHalf
            /\ \A f \in AboveHalf \ Named, g \in Named :
                  ~Gt(cNew.fieldSimilarity[f], cNew.fieldSimilarity[g])
            /\ \A k \in 1..Len(parts) :
                  parts[k][2] = MathRound(Mul(cNew.fieldSimilarity[parts[k][1]], Num(100)))
            /\ \A k \in 1..(Len(parts) - 1) :
                  ~Lt(cNew.fieldSimilarity[parts[k][1]],
                      cNew.fieldSimilarity[parts[k + 1][1]])
            /\ cResult.value.template =
                  (IF AboveHalf = {} THEN "Some general similarity" ELSE "Similar")

\* three fields are above 0.5 and the two named are the later, higher ones
C22_Witness ==
    /\ cResult.kind = "explained"
    /\ cNew.fieldSimilarity.problemStatement = Rat(101, 200)
    /\ cNew.fieldSimilarity.proposedSolution = Rat(1, 2)
    /\ cNew.fieldSimilarity.description = Rat(3, 5)
    /\ cNew.fieldSimilarity.domain = Num(1)
    /\ cResult.value.parts = << <<"domain", Num(100)>>, <<"description", Num(60)>> >>
    /\ cResult.value.title = TitleB

\* a candidate above the threshold with no field above 0.5
C22_GenericReached ==
    /\ cResult.kind = "explained"
    /\ AboveHalf = {}
    /\ cResult.value.template = "Some general similarity"
    /\ cResult.value.parts = <<>>

\* the first field in declaration order among those with the lowest value
FirstLowest ==
    LET low == {f \in FieldSet :
                   \A g \in FieldSet :
                       ~Lt(cNew.lowestUniqueness[g], cNew.lowestUniqueness[f])}
    IN  Fields[CHOOSE i \in 1..Len(Fields) :
                   /\ Fields[i] \in low
                   /\ \A j \in 1..(i - 1) : Fields[j] \notin low]

\* C23: generateUniquenessExplanation picks its template by the bucket of the
\* overall score (>= 90, >= 70, >= 50, >= 30, below 30); in the three lowest
\* buckets it names the field with the lowest per-field uniqueness, the first
\* in declaration order when several tie
C23_BucketAndLeastUnique ==
    cResult.kind = "overall" =>
        LET score == cResult.score[1]
        IN  /\ IsInteger(cResult.score)
            /\ cResult.value.template =
                  (IF score >= 90 THEN "highly unique"
                   ELSE IF score >= 70 THEN "mostly unique"
                   ELSE IF score >= 50 THEN "moderate uniqueness"
                   ELSE IF score >= 30 THEN "significant similarities"
                   ELSE "low uniqueness")
            /\ cResult.value.field = (IF score >= 70 THEN "" ELSE FirstLowest)

\* two fields tie for the lowest value and the earlier one is named
C23_Witness ==
    /\ cResult.kind = "overall"
    /\ cNew.lowestUniqueness.problemStatement = Num(60)
    /\ cNew.lowestUniqueness.proposedSolution = Num(20)
    /\ cNew.lowestUniqueness.description = Num(20)
    /\ cNew.lowestUniqueness.domain = Num(20)
    /\ cResult.score = Num(30)
    /\ cResult.value.template = "significant similarities"
    /\ cResult.value.field = "proposedSolution"

\* every bucket's lower edge has been explained
C23_BucketEdgeReached ==
    /\ cResult.kind = "overall"
    /\ cResult.score = Num(50)
    /\ cResult.value.template = "moderate uniqueness"

-----------------------------------------------------------------------------
(* Order of the candidates (SpecRank)                                      *)

\* the rounded overall similarity of the i-th existing idea
ScoreOf(i) == MathRound(Mul(SimilarityTo(i).overallSimilarity, Num(100)))

\* C24: candidates of equal similarityScore appear in similarIdeas in the
\* order in which they occur in the corpus list, also when the tie decides
\* which of them is within the first five
C24_TiesKeepCorpusOrder ==
    cResult.kind = "scored" =>
        LET sim == cResult.similarIdeas
        IN  /\ \A k \in 1..Len(sim), l \in 1..Len(sim) :
                  (k < l /\ sim[k].similarityScore = sim[l].similarityScore)
                      => sim[k].ideaId < sim[l].ideaId
            /\ \A i \in AboveThreshold \ Listed, k \in 1..Len(sim) :
                  ScoreOf(i) = sim[k].similarityScore => sim[k].ideaId < i

\* seven ideas share the highest score, and the first five of them are listed
C24_Witness ==
    /\ cResult.kind = "scored"
    /\ Len(cCorpus) = 10
    /\ Cardinality({i \in 1..10 : ScoreOf(i) = Num(100)}) = 7
    /\ ScoreOf(1) # Num(100) /\ ScoreOf(4) # Num(100)
    /\ [k \in 1..5 |-> cResult.similarIdeas[k].ideaId] = <<2, 3, 5, 6, 7>>

-----------------------------------------------------------------------------
(* The room of a submission (Spec)                                         *)

\* the request in slot s has just been received
Arrives(s) == received' = received + 1 /\ req'[s] # req[s]

\* the request in slot s has been answered before the corpus was read: no
\* uniqueness check has run (so no call to the embedding service) and no
\* document was written
AnsweredAtTheDoor(r, status, error) ==
    /\ r.pc = "done"
    /\ r.res.status = status /\ r.res.error = error
    /\ r.outcome = NoOutcome /\ r.outcome.calls = 0
    /\ r.snap = 0 /\ r.wrote = 0

C25_ExpiredLaterReached ==
    /\ rooms["r2"] = "expired"
    /\ req[1].pc = "done" /\ req[1].body.roomId = "r2" /\ req[1].wrote # 0
    /\ req[2].pc = "done" /\ req[2].body.roomId = "r2" /\ req[2].res.status = 400
    /\ req[2].res.error = "This room is no longer active or has expired"

-----------------------------------------------------------------------------
(* The vector database: findSimilarPapers and calculatePaperSimilarity     *)

\* the number of papers initVectorDB puts into MOCK_PAPER_CACHE
MockCacheSize == 10

\* the number of nested calls the call stack holds; one more raises
\* RangeError: Maximum call stack size exceeded
StackLimit == 4

\* values of VECTOR_DB_TYPE: the default, the MongoDB setting and one with
\* no implementation
VectorDbTypes == {"mock", "mongodb", "pinecone"}

PaperVec(abstract, conclusion) == [abstract |-> abstract, conclusion |-> conclusion]

\* the embeddings of a paper: of both sections, of the abstract only, or {}
PaperEmbeddings ==
    {PaperVec(VecA, VecB), PaperVec(VecA, Undefined), PaperVec(Undefined, Undefined)}

\* values Math.random() may return
RandomValues == {Num(0), Rat(1, 2), Rat(99, 100)}

\* orders in which the sort of line 98 may leave the cache, by paper number
Shuffles ==
    {[i \in 1..MockCacheSize |-> i - 1], [i \in 1..MockCacheSize |-> MockCacheSize - i]}

\* values of topK, the default 5 among them
TopKs == {0, 1, 3, 5}

Found(uniquenessScore, similarPapers) ==
    [kind |-> "result", uniquenessScore |-> uniquenessScore,
     similarPapers |-> similarPapers, error |-> ""]

\* a promise that rejects with the error
Rejected(error) ==
    [kind |-> "rejected", uniquenessScore |-> NaN, similarPapers |-> <<>>,
     error |-> error]

\* a call that raises before the callee runs
Raised(error) ==
    [kind |-> "raised", uniquenessScore |-> NaN, similarPapers |-> <<>>,
     error |-> error]

\* lines 94-118: topK papers of the shuffled cache, each with a random
\* similarity between 0.5 and 0.85, sorted, and the uniqueness score made
\* from the highest
mockSearch(topK, shuffled, draws) ==
    LET n == IF topK < Len(shuffled) THEN topK ELSE Len(shuffled)
        mockResults ==
            [i \in 1..n |->
                [paperId |-> shuffled[i],
                 similarity |->
                     Div(MathRound(Mul(Add(Rat(1, 2), Mul(draws[i], Rat(35, 100))),
                                       Num(100))),
                         Num(100))]]
        sorted == StableSortDesc(mockResults, [i \in 1..n |-> mockResults[i].similarity])
        highestSimilarity == IF n > 0 THEN sorted[1].similarity ELSE Num(0)
    IN  Found(MathRound(Mul(Sub(Num(1), Mul(highestSimilarity, Rat(8, 10))), Num(100))),
              sorted)

RECURSIVE findSimilarPapers(_, _, _, _, _, _)
\* lines 92-185, as the depth-th nested call. VECTOR_DB_TYPE is read from the
\* environment once, when the module is loaded, so the call the other two
\* branches make to fall back meets the same setting again
findSimilarPapers(type, embeddings, topK, shuffled, draws, depth) ==
    IF depth > StackLimit THEN Raised("Maximum call stack size exceeded")
    ELSE IF type = "mock" THEN mockSearch(topK, shuffled, draws)
    ELSE IF type = "mongodb"
    THEN \* lines 121-180: whether the try block raises "No embeddings
         \* provided for search" or reaches line 175, and again in the catch
         \* block, the same call is made; if it raises there too, the promise
         \* of this call rejects
         LET inner == findSimilarPapers(type, embeddings, topK, shuffled, draws, depth + 1)
         IN  IF inner.kind = "raised" THEN Rejected(inner.error) ELSE inner
    ELSE \* lines 183-184
         LET inner == findSimilarPapers(type, embeddings, topK, shuffled, draws, depth + 1)
         IN  IF inner.kind = "raised" THEN Rejected(inner.error) ELSE inner

\* what the similarity endpoint of the embedding service answers: a result,
\* or data of another shape
WellFormedAnswer == Found(Num(40), <<[paperId |-> 7, similarity |-> Rat(3, 4)]>>)

MalformedAnswer ==
    [kind |-> "malformed", uniquenessScore |-> NaN, similarPapers |-> <<>>, error |-> ""]

SimilarityServices ==
    {[up |-> TRUE, data |-> WellFormedAnswer],
     [up |-> TRUE, data |-> MalformedAnswer],
     [up |-> FALSE, data |-> MalformedAnswer]}

\* researchAnalyzer.js lines 334-360: the vector database, and the embedding
\* service when that fails
calculatePaperSimilarity(type, embeddings, topK, shuffled, draws, service) ==
    LET found == findSimilarPapers(type, embeddings, topK, shuffled, draws, 1)
    IN  IF found.kind = "result" THEN found
        ELSE IF service.up THEN service.data
        ELSE Rejected("Failed to calculate paper similarity")

SearchInputs ==
    {[kind |-> "search", type |-> t, embeddings |-> e, topK |-> k]
        : t \in VectorDbTypes, e \in PaperEmbeddings, k \in TopKs}

DrawsFor(topK) ==
    [1..(IF topK < MockCacheSize THEN topK ELSE MockCacheSize) -> RandomValues]

\* the call findSimilarPapers(embeddings, topK)
FindSimilar(shuffled, draws) ==
    /\ cNew.kind = "search"
    /\ cResult = NoValue
    /\ cResult' = [kind |-> "found",
                   value |-> findSimilarPapers(cNew.type, cNew.embeddings, cNew.topK,
                                               shuffled, draws, 1)]
    /\ UNCHANGED <<rooms, ideas, providerUp, req, received, cNew, cEmb, cCorpus>>

\* the call calculatePaperSimilarity(embeddings, topK)
CalculateSimilarity(shuffled, draws, service) ==
    /\ cNew.kind = "search"
    /\ cResult = NoValue
    /\ cResult' = [kind |-> "calculated",
                   value |-> calculatePaperSimilarity(cNew.type, cNew.embeddings,
                                                      cNew.topK, shuffled, draws, service)]
    /\ UNCHANGED <<rooms, ideas, providerUp, req, received, cNew, cEmb, cCorpus>>

InitVector ==
    /\ ServerIdle
    /\ cNew \in SearchInputs
    /\ cEmb = [up |-> TRUE, embeddings |-> NoEmb]
    /\ cCorpus = <<>>
    /\ cResult = NoValue

NextVector ==
    \/ \E shuffled \in Shuffles, draws \in DrawsFor(cNew.topK) :
          FindSimilar(shuffled, draws)
    \/ \E shuffled \in Shuffles, draws \in DrawsFor(cNew.topK), service \in SimilarityServices :
          CalculateSimilarity(shuffled, draws, service)

SpecVector == InitVector /\ [][NextVector]_vars

\* a result with a numeric uniqueness score and at most topK papers in
\* non-increasing order of similarity
SortedResult(value, topK) ==
    /\ value.kind = "result"
    /\ IsInteger(value.uniquenessScore)
    /\ Len(value.similarPapers) <= topK
    /\ \A k \in 1..(Len(value.similarPapers) - 1) :
          ~Lt(value.similarPapers[k].similarity, value.similarPapers[k + 1].similarity)

\* C27: findSimilarPapers ends with a result, a uniquenessScore and at most
\* topK similarPapers in non-increasing order of similarity, for every
\* setting of VECTOR_DB_TYPE: for 'mongodb' and for a type with no
\* implementation it falls back to the mock search and returns its result
C27_ResultForEveryType ==
    cResult.kind = "found" => SortedResult(cResult.value, cNew.topK)

\* C27 for the mock setting alone
C27_MockSearchReturns ==
    (cResult.kind = "found" /\ cNew.type = "mock") =>
        /\ SortedResult(cResult.value, cNew.topK)
        /\ Len(cResult.value.similarPapers) = cNew.topK

\* the call ends for every setting, with a result or with a rejection
C27_SearchEnds ==
    cResult.kind = "found" => cResult.value.kind \in {"result", "rejected"}

\* under the MongoDB setting the search has ended without a result
C27_RejectionReached ==
    /\ cResult.kind = "found"
    /\ cNew.type = "mongodb"
    /\ cResult.value = Rejected("Maximum call stack size exceeded")

\* a mock search has returned five papers of three different similarities
C27_MockReached ==
    /\ cResult.kind = "found" /\ cNew.type = "mock" /\ cNew.topK = 5
    /\ Len(cResult.value.similarPapers) = 5
    /\ cResult.value.similarPapers[1].similarity = Rat(17, 20)
    /\ cResult.value.similarPapers[3].similarity = Rat(17, 25)
    /\ cResult.value.similarPapers[5].similarity = Rat(1, 2)
    /\ cResult.value.uniquenessScore = Num(32)

-----------------------------------------------------------------------------
(* checkPaperUniqueness, split where it awaits                             *)

\* the names cloudinaryUploader.js exports (its line 48)
cloudinaryUploaderExports == {"uploadPDFToCloudinary"}

\* requests to /papers/check-uniqueness: whether a file came with it, whether
\* pdf-parse reads it, what extractAbstract and extractConclusion find in it
\* ("" when nothing), the title of the form, and the setting of the vector
\* database
PaperUploads ==
    {[kind |-> "upload", file |-> f, parses |-> p, abstract |-> a, conclusion |-> c,
      title |-> t, type |-> v]
        : f \in BOOLEAN, p \in BOOLEAN, a \in {Missing, TextT}, c \in {Missing, TextS},
          t \in {Missing, TitleA}, v \in VectorDbTypes}

\* a request as it starts: steps lists the steps that have succeeded
PaperRun ==
    [kind |-> "paper", pc |-> "received", steps |-> <<>>,
     embeddings |-> PaperVec(Undefined, Undefined),
     similarityResults |-> MalformedAnswer,
     status |-> 0, error |-> ""]

\* res.status(status).json({ success: false, error })
Failed(run, status, error) ==
    [run EXCEPT !.pc = "done", !.status = status, !.error = error]

\* lines 20-43: the file test, extractFromPdf and the test of what it found
ExtractStep ==
    /\ cNew.kind = "upload"
    /\ cResult.pc = "received"
    /\ cResult' =
          IF ~cNew.file THEN Failed(cResult, 400, "No PDF file uploaded")
          ELSE IF ~cNew.parses
          THEN Failed(cResult, 500, "Failed to extract content from PDF")
          ELSE IF cNew.abstract = Missing /\ cNew.conclusion = Missing
          THEN Failed([cResult EXCEPT !.steps = <<"extract">>], 400,
                      "Could not extract abstract or conclusion from the PDF")
          ELSE [cResult EXCEPT !.pc = "embed", !.steps = <<"extract">>]
    /\ UNCHANGED <<rooms, ideas, providerUp, req, received, cNew, cEmb, cCorpus>>

\* line 46: generatePaperEmbeddings, the embedding service answering or not
EmbedStep(up) ==
    /\ cResult.pc = "embed"
    /\ LET request == paperRequest([abstract |-> Str(cNew.abstract),
                                    conclusion |-> Str(cNew.conclusion)])
       IN  cResult' =
              IF request.posted /\ ~up
              THEN Failed(cResult, 500, "Failed to generate embeddings for paper")
              ELSE [cResult EXCEPT
                       !.pc = "similarity",
                       !.steps = Append(@, "embeddings"),
                       !.embeddings =
                           PaperVec(IF "abstract" \in request.keys THEN VecA ELSE Undefined,
                                    IF "conclusion" \in request.keys THEN VecB
                                    ELSE Undefined)]
    /\ UNCHANGED <<rooms, ideas, providerUp, req, received, cNew, cEmb, cCorpus>>

\* line 49: calculatePaperSimilarity with the default topK
SimilarityStep(shuffled, draws, service) ==
    /\ cResult.pc = "similarity"
    /\ LET similarityResults ==
               calculatePaperSimilarity(cNew.type, cResult.embeddings, 5,
                                        shuffled, draws, service)
       IN  cResult' =
              IF similarityResults.kind = "rejected"
              THEN Failed(cResult, 500, similarityResults.error)
              ELSE [cResult EXCEPT !.pc = "upload",
                                   !.steps = Append(@, "similarity"),
                                   !.similarityResults = similarityResults]
    /\ UNCHANGED <<rooms, ideas, providerUp, req, received, cNew, cEmb, cCorpus>>

\* the Paper document of lines 59-84
NewPaper(upload, run, id) ==
    [_id |-> id,
     title |-> IF upload.title # Missing THEN Trim(upload.title) ELSE <<7>>,
     abstract |-> upload.abstract, conclusion |-> upload.conclusion,
     embeddings |-> run.embeddings,
     uniquenessScore |-> run.similarityResults.uniquenessScore,
     similarPapers |-> run.similarityResults.similarPapers,
     isAnalyzed |-> TRUE]

UploadAndSaveStep_SaveFirst(cloudUp) ==
    /\ cResult.pc = "upload"
    /\ cCorpus' = Append(cCorpus, NewPaper(cNew, cResult, Len(cCorpus) + 1))
    /\ IF "uploadToCloudinary" \notin cloudinaryUploaderExports
       THEN cResult' = Failed(cResult, 500, "uploadToCloudinary is not a function")
       ELSE IF ~cloudUp
       THEN cResult' = Failed(cResult, 500, "Failed to upload PDF to Cloudinary")
       ELSE cResult' = [cResult EXCEPT !.pc = "done", !.status = 200,
                                       !.steps = @ \o <<"upload", "save">>]
    /\ UNCHANGED <<rooms, ideas, providerUp, req, received, cNew, cEmb>>

\* lines 51-107: the upload, then the document and its save. The controller
\* takes uploadToCloudinary from cloudinaryUploader.js (line 3), which has no
\* export of that name, so the call of line 52 raises a TypeError
UploadAndSaveStep(cloudUp) ==
    /\ cResult.pc = "upload"
    /\ IF "uploadToCloudinary" \notin cloudinaryUploaderExports
       THEN /\ cResult' = Failed(cResult, 500, "uploadToCloudinary is not a function")
            /\ cCorpus' = cCorpus
       ELSE IF ~cloudUp
       THEN /\ cResult' = Failed(cResult, 500, "Failed to upload PDF to Cloudinary")
            /\ cCorpus' = cCorpus
       ELSE IF cResult.similarityResults.kind # "result"
       THEN /\ cResult' = Failed([cResult EXCEPT !.steps = Append(@, "upload")], 500,
                                 "Cannot read properties of undefined")
            /\ cCorpus' = cCorpus
       ELSE IF NewPaper(cNew, cResult, Len(cCorpus) + 1).title = Missing
       THEN /\ cResult' = Failed([cResult EXCEPT !.steps = Append(@, "upload")], 500,
                                 "Please provide a paper title")
            /\ cCorpus' = cCorpus
       ELSE /\ cCorpus' = Append(cCorpus, NewPaper(cNew, cResult, Len(cCorpus) + 1))
            /\ cResult' = [cResult EXCEPT !.pc = "done", !.status = 200,
                                          !.steps = @ \o <<"upload", "save">>]
    /\ UNCHANGED <<rooms, ideas, providerUp, req, received, cNew, cEmb>>

InitPaper ==
    /\ ServerIdle
    /\ cNew \in PaperUploads
    /\ cEmb = [up |-> TRUE, embeddings |-> NoEmb]
    /\ cCorpus = <<>>
    /\ cResult = PaperRun

NextPaper ==
    \/ ExtractStep
    \/ \E up \in BOOLEAN : EmbedStep(up)
    \/ \E shuffled \in Shuffles, r \in RandomValues, service \in SimilarityServices :
          SimilarityStep(shuffled, [i \in 1..5 |-> r], service)
    \/ \E cloudUp \in BOOLEAN : UploadAndSaveStep(cloudUp)

SpecPaper == InitPaper /\ [][NextPaper]_vars

C26_NothingExtractedReached ==
    /\ cNew.kind = "upload" /\ cResult.pc = "done"
    /\ cNew.file /\ cNew.parses
    /\ cResult.status = 400
    /\ cResult.error = "Could not extract abstract or conclusion from the PDF"
    /\ cCorpus = <<>>

\* no request is answered 200 and no Paper is saved, the upload never
\* succeeding
C26_NoPaperSaved ==
    cNew.kind = "upload" => (cResult.status # 200 /\ cCorpus = <<>>)

-----------------------------------------------------------------------------
(* Rooms are separate corpora (Spec)                                       *)

\* the stored ideas of the room of the request in slot s, other than the one
\* the request wrote itself
RoomMates(s) ==
    {i \in 1..Len(ideas) : ideas[i].roomId = req[s].body.roomId /\ i # req[s].wrote}

\* the check of the request in slot s was decided by ideas of its own room:
\* it rejects exactly when one of them, stored when the corpus was read, has
\* the hash of its problem statement or of its proposed solution, and it
\* lists ideas of that room only
DecidedByOwnRoom(s) ==
    /\ req[s].outcome.isRejected <=>
          \E i \in StoredBefore(s) :
              \/ ideas[i].hashes.problemStatement =
                     generateHash(req[s].body.problemStatement)
              \/ ideas[i].hashes.proposedSolution =
                     generateHash(req[s].body.proposedSolution)
    /\ \A k \in 1..Len(req[s].outcome.similarIdeas) :
          req[s].outcome.similarIdeas[k].ideaId \in StoredBefore(s)

\* C28: the outcome of submitIdea for a room (accepted, rejected or failed,
\* with its scores and similar ideas) depends only on the ideas stored with
\* that roomId: ideas of other rooms, even with an identical problem
\* statement, proposed solution or title, never change it
C28_RoomIsolation ==
    \A s \in Slots :
        (req[s].pc = "done" /\ Checked(s) /\ req[s].outcome.kind # "throw") =>
            /\ DecidedByOwnRoom(s)
            /\ req[s].outcome.kind = "scored" =>
                  \/ req[s].res.status = 201 /\ req[s].wrote # 0
                  \/ \E i \in RoomMates(s) : ideas[i].title = Trim(req[s].body.title)

\* C28 for the check alone: identical texts in other rooms change neither the
\* rejection nor the ideas listed
C28_CheckSeesOwnRoomOnly ==
    \A s \in Slots :
        (Checked(s) /\ req[s].outcome.kind # "throw") => DecidedByOwnRoom(s)

\* an idea with the same problem statement and proposed solution is stored in
\* another room, and the submission was accepted with a full score
C28_SameTextElsewhereReached ==
    /\ req[1].pc = "done" /\ req[1].wrote = 1 /\ req[1].body.roomId = "r2"
    /\ req[2].pc = "done" /\ req[2].wrote = 2 /\ req[2].body.roomId = "r1"
    /\ req[2].snap = 1
    /\ ideas[1].problemStatement = ideas[2].problemStatement
    /\ ideas[1].proposedSolution = ideas[2].proposedSolution
    /\ req[2].res.status = 201
    /\ req[2].outcome.uniquenessScore = Num(100)

\* a submission scored as unique in its room was answered 500 because an idea
\* of another room has its title
C28_TitleElsewhereReached ==
    /\ req[1].pc = "done" /\ req[1].wrote = 1 /\ req[1].body.roomId = "r2"
    /\ req[2].pc = "done" /\ req[2].wrote = 0 /\ req[2].body.roomId = "r1"
    /\ req[2].outcome.kind = "scored" /\ req[2].outcome.uniquenessScore = Num(100)
    /\ req[2].res.status = 500
    /\ ideas[1].title = Trim(req[2].body.title)
    /\ Len(ideas) = 1

-----------------------------------------------------------------------------
(* checkIdeaUniqueness and the order and size of the corpus (SpecOrder)    *)

\* longest existingIdeas list of this check
MaxOrder == 3

\* hashes and embeddings of the existing ideas: without either, matching the
\* problem statement, matching the proposed solution, and five that match
\* neither
OrderEntries ==
    {[hashes |-> NoHashes, embeddings |-> NoEmb],
     [hashes |-> Hashes(generateHash(TextT), generateHash(TextV)),
      embeddings |-> Emb(VecA, VecA, VecA, VecA)],
     [hashes |-> Hashes(generateHash(TextU), generateHash(TextS)),
      embeddings |-> Emb(VecE, VecE, VecB, VecB)],
     [hashes |-> Hashes(generateHash(TextU), generateHash(TextV)),
      embeddings |-> Emb(VecA, VecA, VecA, VecNegA)],
     [hashes |-> Hashes(generateHash(TextU), generateHash(TextV)),
      embeddings |-> Emb(VecC, VecC, VecE, VecE)],
     [hashes |-> Hashes(generateHash(TextU), generateHash(TextV)),
      embeddings |-> Emb(VecE, VecB, VecA, VecC)],
     [hashes |-> Hashes(generateHash(TextU), generateHash(TextV)),
      embeddings |-> Emb(VecShort, VecEmpty, Undefined, VecZero)],
     [hashes |-> Hashes(generateHash(TextU), generateHash(TextV)),
      embeddings |-> NoEmb]}

InitOrder ==
    /\ ServerIdle
    /\ cNew = Body(TitleA, TextT, TextS, "r1")
    /\ cEmb \in Services
    /\ cCorpus \in
          {[i \in 1..Len(pick) |-> Entry(i, pick[i].hashes, pick[i].embeddings)]
              : pick \in UNION {[1..n -> OrderEntries] : n \in 0..MaxOrder}}
    /\ cResult = NoOutcome

NextOrder == RunCheck

SpecOrder == InitOrder /\ [][NextOrder]_vars

\* the orders of a list of n elements
Orders(n) == {p \in [1..n -> 1..n] : \A i, j \in 1..n : p[i] = p[j] => i = j}

\* the check of the same new idea, with the same answer of the embedding
\* service, on the corpus in the order p
Reordered(p) ==
    checkIdeaUniqueness(cNew, [i \in 1..Len(cCorpus) |-> cCorpus[p[i]]], cEmb)

\* C29: for a fixed new idea and a fixed embedding response, permuting the
\* corpus list changes neither whether checkIdeaUniqueness rejects, nor the
\* fieldUniqueness values, the uniquenessScore or the overall explanation it
\* returns
C29_OrderIrrelevant ==
    cResult.kind # "none" =>
        \A p \in Orders(Len(cCorpus)) :
            /\ Reordered(p).kind = cResult.kind
            /\ Reordered(p).isRejected = cResult.isRejected
            /\ Reordered(p).fieldUniqueness = cResult.fieldUniqueness
            /\ Reordered(p).uniquenessScore = cResult.uniquenessScore
            /\ Reordered(p).explanation = cResult.explanation

\* C29 amended: the rejection, the fieldUniqueness values and the
\* uniquenessScore never change, and the overall explanation does not change
\* when the idea is not rejected
C29_OrderIrrelevantUnlessRejected ==
    cResult.kind # "none" =>
        \A p \in Orders(Len(cCorpus)) :
            /\ Reordered(p).kind = cResult.kind
            /\ Reordered(p).isRejected = cResult.isRejected
            /\ Reordered(p).fieldUniqueness = cResult.fieldUniqueness
            /\ Reordered(p).uniquenessScore = cResult.uniquenessScore
            /\ ~cResult.isRejected => Reordered(p).explanation = cResult.explanation

\* three ideas with embeddings, each the closest on another field, and an
\* order that changes the list of similar ideas but not the scores
C29_Witness ==
    /\ cResult.kind = "scored"
    /\ Len(cCorpus) = 3
    /\ \A i \in 1..3 : cCorpus[i].embeddings.def
    /\ cResult.fieldUniqueness.val.problemStatement = Num(0)
    /\ cResult.fieldUniqueness.val.proposedSolution = Num(0)
    /\ cResult.fieldUniqueness.val.domain = Num(3)
    /\ cResult.explanation.field = "problemStatement"
    /\ \E p \in Orders(3) : Reordered(p).similarIdeas # cResult.similarIdeas

\* a rejection whose explanation names another field in another order
C29_RejectionChangesReached ==
    /\ cResult.kind = "rejected"
    /\ cResult.explanation.field = "problemStatement"
    /\ \E p \in Orders(Len(cCorpus)) :
          Reordered(p).explanation.field = "proposedSolution"

\* the check of the same new idea, with the same answer of the embedding
\* service, on the corpus without its i-th entry
Before(i) == checkIdeaUniqueness(cNew, Without(cCorpus, i), cEmb)

\* C30: for a fixed new idea and a fixed embedding response, one more entry
\* in the corpus, not causing an exact-match rejection, never increases a
\* fieldUniqueness value nor the uniquenessScore checkIdeaUniqueness returns
C30_MoreCorpusNeverMoreUnique ==
    cResult.kind = "scored" =>
        \A i \in 1..Len(cCorpus) :
            /\ Before(i).kind \in {"scored", "throw"}
            /\ Before(i).kind = "scored" =>
                  /\ \A f \in FieldSet :
                        /\ ~IsNaN(cResult.fieldUniqueness.val[f])
                        /\ ~Gt(cResult.fieldUniqueness.val[f],
                               Before(i).fieldUniqueness.val[f])
                  /\ ~IsNaN(cResult.uniquenessScore)
                  /\ ~Gt(cResult.uniquenessScore, Before(i).uniquenessScore)

\* the entry added last lowered one field and the score, and left the field
\* on which it is farther than an earlier entry as it was
C30_Witness ==
    /\ cResult.kind = "scored"
    /\ Len(cCorpus) = 2
    /\ Before(2).kind = "scored"
    /\ Lt(cResult.uniquenessScore, Before(2).uniquenessScore)
    /\ Lt(cResult.fieldUniqueness.val.domain, Before(2).fieldUniqueness.val.domain)
    /\ cResult.fieldUniqueness.val.problemStatement = Num(0)
    /\ Before(1).fieldUniqueness.val.problemStatement # Num(0)

\* the first entry of a room's corpus lowers the score of 100
C30_FirstEntryReached ==
    /\ cResult.kind = "scored"
    /\ Len(cCorpus) = 1
    /\ Before(1).uniquenessScore = Num(100)
    /\ Lt(cResult.uniquenessScore, Num(100))

====
